---- MODULE Spec2Model ----
(***************************************************************************)
(* Settlement core of the exchange contract: the per-account ledger with   *)
(* storage-rent accounting (lib.rs), the two-token constant-product pool   *)
(* (simple_pool.rs) and the withdraw / exchange_callback_post_withdraw     *)
(* protocol (lib.rs).  A panic inside a handler reverts everything the     *)
(* handler wrote (host semantics), so a handler is an operator returning   *)
(* either an error code with the state it started from or the new state.   *)
(***************************************************************************)
EXTENDS Integers, Sequences, FiniteSets, TLC

VARIABLES
    accounts,            \* Contract.accounts: AccountId -> Account (a partial map)
    whitelisted_tokens,  \* Contract.whitelisted_tokens
    pools,               \* Contract.pools: Vector<Pool>
    pending,             \* ft_transfer promises issued by withdraw, callback not yet run
    last,                \* history: the handler that completed last and how it ended
    q                    \* a quote request against a pool (SpecQuote only)

vars == <<accounts, whitelisted_tokens, pools, pending, last, q>>

----------------------------------------------------------------------------
(* Bounds of the model *)

\* units of one token that inbound deposits bring into the contract
MaxSupply == 2
\* withdrawals whose continuation has not run yet
MaxPending == 1
\* pools that add_simple_pool creates
MaxPools == 1
\* env::storage_byte_cost(), in model units per byte
StorageByteCost == 1
\* INIT_SHARES_SUPPLY is 10^24 in the source; the model scales it to fit
\* the model checker's integers
ShareScale == 2
\* largest amount a caller passes as an argument
MaxAmount == 2
\* largest reserve of a pool and largest amount passed to the pool engine, when
\* the engine is driven directly (SpecPool, SpecQuote)
MaxReserve == 4
MaxPoolAmount == 3
\* largest balance of a token an account is funded with before it provides
\* liquidity (SpecProvide)
MaxFunding == 3
\* pools that exist side by side (SpecPair)
MaxPairPools == 2
\* bits of a Balance.  The source has 128 (u128) and computes ratios in U256,
\* twice as wide; the model keeps the ratio of the two widths and scales both
\* so that a U256 value fits the model checker's integers.  FEE_DIVISOR stays
\* below 2^BalanceBits and FEE_DIVISOR * 2^BalanceBits * 2 below the wide
\* maximum, as in the source.
BalanceBits == 15

----------------------------------------------------------------------------
(* Program constants, lib.rs:37-54 *)

U128_STORAGE == 16
U64_STORAGE == 8
U32_STORAGE == 4
ACC_ID_STORAGE == 64
ACC_ID_AS_KEY_STORAGE == ACC_ID_STORAGE + 4
KEY_PREFIX_ACC == 64
ACC_ID_AS_CLT_KEY_STORAGE == ACC_ID_AS_KEY_STORAGE + 1
INIT_ACCOUNT_STORAGE ==
    ACC_ID_AS_CLT_KEY_STORAGE + 1 + U128_STORAGE + U32_STORAGE + U64_STORAGE

\* bytes of one token entry of an account, lib.rs:121
TOKEN_ENTRY_STORAGE == KEY_PREFIX_ACC + ACC_ID_AS_KEY_STORAGE + U128_STORAGE

\* utils.rs:13
FEE_DIVISOR == 10000
\* simple_pool.rs:11
NUM_TOKENS == 2
\* simple_pool.rs:16 (scaled, see ShareScale)
INIT_SHARES_SUPPLY == ShareScale

----------------------------------------------------------------------------
(* The principals and tokens of the model *)

owner_id == "owner"
\* env::current_account_id(): the contract's own account
current_account_id == "exchange"
Principals == {"owner", "alice"}
Tokens == {"t1", "t2"}
ShareHolders == Principals \cup {current_account_id}

\* error codes, by the message of the panic
OK == "ok"
ERR11_INSUFFICIENT_STORAGE == "E11"
ERR21_TOKEN_NOT_REG == "E21"
ERR22_NOT_ENOUGH_TOKENS == "E22"
ERR24_NON_ZERO_TOKEN_BALANCE == "E24"
ERR29_ILLEGAL_WITHDRAW_AMOUNT == "E29"
ERR_ACCOUNT_NOT_REGISTERED == "ACCOUNT NOT REGISTERED"
ERR_LOSTFOUND == "ERR: non-whitelisted token can NOT deposit into lost-found."
ERR_MSG_NOT_EMPTY == "msg must empty on deposit action"
ERR_AMOUNT_ZERO == "Amount must be greater than 0!"
ERR_NO_STORAGE_WITHDRAW == "Not storage withdraw"
ERR_STORAGE_WITHDRAW_TOO_MUCH == "storage withdraw to much"
ERR_NO_POOL == "ERR_NO_POOL"
ERR_TOKEN_DUPLICATES == "ERR_TOKEN_DUPLICATES"
ERR_FEE_TOO_LARGE == "ERR_FEE_TOO_LARGE"
ERR_SHOULD_HAVE_2_TOKENS == "ERR_SHOULD_HAVE_2_TOKENS"
ERR14_LP_ALREADY_REGISTERED == "E14"
ERR13_LP_NOT_REGISTERED == "E13"
ERR31_ZERO_AMOUNT == "E31"
ERR32_ZERO_SHARES == "E32"
ERR_NO_SHARES == "ERR_NO_SHARES"
ERR_NOT_ENOUGH_SHARES == "ERR_NOT_ENOUGH_SHARES"
ERR_MIN_AMOUNT == "ERR_MIN_AMOUNT"
ERR_INVALID == "ERR_INVALID"
ERR_MISSING_TOKEN == "ERR_MISSING_TOKEN"
\* the panic of U256's checked operators
ERR_OVERFLOW == "arithmetic operation overflow"
\* the panic of an integer division by zero
ERR_DIVIDE_BY_ZERO == "attempt to divide by zero"

----------------------------------------------------------------------------
(* Maps (UnorderedMap / LookupMap) as functions on the set of present keys *)

EmptyMap == <<>>
Put(m, k, v) == [x \in (DOMAIN m) \cup {k} |-> IF x = k THEN v ELSE m[x]]
Remove(m, k) == [x \in (DOMAIN m) \ {k} |-> m[x]]
Get(m, k, default) == IF k \in DOMAIN m THEN m[k] ELSE default

RECURSIVE SumOver(_, _)
SumOver(m, keys) ==
    IF keys = {} THEN 0
    ELSE LET k == CHOOSE x \in keys : TRUE
         IN m[k] + SumOver(m, keys \ {k})
SumMap(m) == SumOver(m, DOMAIN m)

----------------------------------------------------------------------------
(* Account, lib.rs:85-194 *)

AccountNew == [near_amount |-> 0, tokens |-> EmptyMap]

\* variant: a zero balance is inserted for every token, present or not
RECURSIVE register_reset(_, _)
register_reset(account, token_ids) ==
    IF token_ids = <<>> THEN account
    ELSE register_reset([account EXCEPT !.tokens = Put(account.tokens, Head(token_ids), 0)],
                        Tail(token_ids))

\* Account::register: insert a zero balance for every token not yet present
RECURSIVE register(_, _)
register(account, token_ids) ==
    IF token_ids = <<>> THEN account
    ELSE LET t == Head(token_ids)
             a == IF t \in DOMAIN account.tokens
                  THEN account
                  ELSE [account EXCEPT !.tokens = Put(account.tokens, t, 0)]
         IN register(a, Tail(token_ids))

\* variant: the entry is removed whatever its balance
unregister_burn(account, token_id) ==
    [err |-> OK, account |-> [account EXCEPT !.tokens = Remove(account.tokens, token_id)]]

\* Account::unregister: remove the entry, then assert the removed amount was 0
unregister(account, token_id) ==
    LET amount == Get(account.tokens, token_id, 0)
    IN IF amount = 0
       THEN [err |-> OK,
             account |-> [account EXCEPT !.tokens = Remove(account.tokens, token_id)]]
       ELSE [err |-> ERR24_NON_ZERO_TOKEN_BALANCE, account |-> account]

storage_usage(account) ==
    (INIT_ACCOUNT_STORAGE + Cardinality(DOMAIN account.tokens) * TOKEN_ENTRY_STORAGE)
        * StorageByteCost

min_storage_usage == INIT_ACCOUNT_STORAGE * StorageByteCost

\* Account::assert_storage_usage, as the condition asserted
storage_covered(account) == storage_usage(account) <= account.near_amount

\* variant: the whole rent counts as available
storage_available_all(account) == account.near_amount

storage_available(account) ==
    LET locked == storage_usage(account)
    IN IF account.near_amount > locked THEN account.near_amount - locked ELSE 0

\* variant: a registered token's balance is overwritten, not increased
deposit_with_storage_check_overwrite(account, token, amount) ==
    LET inserted == [account EXCEPT !.tokens = Put(account.tokens, token, amount)]
    IN IF token \in DOMAIN account.tokens \/ storage_usage(inserted) <= inserted.near_amount
       THEN [ok |-> TRUE, account |-> inserted]
       ELSE [ok |-> FALSE, account |-> account]

\* variant: the entry inserted for the check stays when the check fails
deposit_with_storage_check_keeps(account, token, amount) ==
    IF token \in DOMAIN account.tokens
    THEN [ok |-> TRUE,
          account |-> [account EXCEPT !.tokens = Put(account.tokens, token,
                                                     account.tokens[token] + amount)]]
    ELSE LET inserted == [account EXCEPT !.tokens = Put(account.tokens, token, amount)]
         IN [ok |-> storage_usage(inserted) <= inserted.near_amount, account |-> inserted]

deposit_with_storage_check(account, token, amount) ==
    IF token \in DOMAIN account.tokens
    THEN [ok |-> TRUE,
          account |-> [account EXCEPT !.tokens = Put(account.tokens, token,
                                                     account.tokens[token] + amount)]]
    ELSE LET inserted == [account EXCEPT !.tokens = Put(account.tokens, token, amount)]
         IN IF storage_usage(inserted) <= inserted.near_amount
            THEN [ok |-> TRUE, account |-> inserted]
            ELSE [ok |-> FALSE, account |-> account]

\* variant: the balance is overwritten, not increased
deposit_overwrite(account, token, amount) ==
    [account EXCEPT !.tokens = Put(account.tokens, token, amount)]

deposit(account, token, amount) ==
    [account EXCEPT !.tokens = Put(account.tokens, token,
                                   amount + Get(account.tokens, token, 0))]

\* Account::withdraw
account_withdraw(account, token, amount) ==
    IF token \in DOMAIN account.tokens
    THEN IF account.tokens[token] >= amount
         THEN [err |-> OK,
               account |-> [account EXCEPT !.tokens = Put(account.tokens, token,
                                                          account.tokens[token] - amount)]]
         ELSE [err |-> ERR22_NOT_ENOUGH_TOKENS, account |-> account]
    ELSE [err |-> ERR21_TOKEN_NOT_REG, account |-> account]

----------------------------------------------------------------------------
(* Contract internals, lib.rs:424-476 *)

Fail(e, accts) == [err |-> e, accounts |-> accts]
Done(accts) == [err |-> OK, accounts |-> accts]
Min(a, b) == IF a <= b THEN a ELSE b

internal_unwrap_or_default_account(accts, account_id) ==
    Get(accts, account_id, AccountNew)

\* variant: the account is saved without the storage assertion
internal_save_account_unchecked(accts, account_id, account) ==
    Done(Put(accts, account_id, account))

internal_save_account(accts, account_id, account) ==
    IF storage_covered(account)
    THEN Done(Put(accts, account_id, account))
    ELSE Fail(ERR11_INSUFFICIENT_STORAGE, accts)

\* variant: the credit to the owner is forgotten
internal_lostfound_drops(accts, whitelist, token_id, amount) ==
    IF token_id \in whitelist THEN Done(accts) ELSE Fail(ERR_LOSTFOUND, accts)

\* variant: the allow-list is not consulted
internal_lostfound_any(accts, whitelist, token_id, amount) ==
    Done(Put(accts, owner_id,
             [near_amount |-> Get(accts, owner_id, AccountNew).near_amount,
              tokens |-> Put(Get(accts, owner_id, AccountNew).tokens, token_id,
                             amount + Get(Get(accts, owner_id, AccountNew).tokens,
                                          token_id, 0))]))

internal_lostfound(accts, whitelist, token_id, amount) ==
    IF token_id \in whitelist
    THEN Done(Put(accts, owner_id,
                  deposit(internal_unwrap_or_default_account(accts, owner_id),
                          token_id, amount)))
    ELSE Fail(ERR_LOSTFOUND, accts)

internal_register_account(accts, account_id, amount) ==
    LET account == internal_unwrap_or_default_account(accts, account_id)
    IN internal_save_account(accts, account_id,
                             [account EXCEPT !.near_amount = @ + amount])

internal_storage_withdraw(accts, account_id, amount) ==
    IF account_id \notin DOMAIN accts THEN Fail(ERR_ACCOUNT_NOT_REGISTERED, accts)
    ELSE LET account == accts[account_id]
             available == storage_available(account)
             withdraw_amount == IF amount = 0 THEN available ELSE amount
         IN IF ~(available > 0) THEN Fail(ERR_NO_STORAGE_WITHDRAW, accts)
            ELSE IF ~(withdraw_amount <= available)
            THEN Fail(ERR_STORAGE_WITHDRAW_TOO_MUCH, accts)
            ELSE internal_save_account(accts, account_id,
                     [account EXCEPT !.near_amount = @ - withdraw_amount])

\* variant: the account is stored without the storage assertion
internal_save_information_unchecked(accts, account_id, token_id, amount) ==
    LET account == internal_unwrap_or_default_account(accts, account_id)
        account_amount == Get(account.tokens, token_id, 0)
    IN IF ~(amount > 0) THEN Fail(ERR_AMOUNT_ZERO, accts)
       ELSE Done(Put(accts, account_id,
                     [account EXCEPT !.tokens = Put(account.tokens, token_id,
                                                    amount + account_amount)]))

\* variant: the amount replaces the balance
internal_save_information_overwrite(accts, account_id, token_id, amount) ==
    LET account == internal_unwrap_or_default_account(accts, account_id)
    IN IF ~(amount > 0) THEN Fail(ERR_AMOUNT_ZERO, accts)
       ELSE internal_save_account(accts, account_id,
                [account EXCEPT !.tokens = Put(account.tokens, token_id, amount)])

internal_save_information_to_contract(accts, account_id, token_id, amount) ==
    LET account == internal_unwrap_or_default_account(accts, account_id)
        account_amount == Get(account.tokens, token_id, 0)
    IN IF ~(amount > 0) THEN Fail(ERR_AMOUNT_ZERO, accts)
       ELSE internal_save_account(accts, account_id,
                [account EXCEPT !.tokens = Put(account.tokens, token_id,
                                               amount + account_amount)])

----------------------------------------------------------------------------
(* Contract entry points on the ledger, lib.rs:292-421 *)

register_tokens(accts, sender_id, token_ids) ==
    IF sender_id \notin DOMAIN accts THEN Fail(ERR_ACCOUNT_NOT_REGISTERED, accts)
    ELSE internal_save_account(accts, sender_id, register(accts[sender_id], token_ids))

RECURSIVE unregister_all(_, _)
unregister_all(account, token_ids) ==
    IF token_ids = <<>> THEN [err |-> OK, account |-> account]
    ELSE LET r == unregister(account, Head(token_ids))
         IN IF r.err # OK THEN [err |-> r.err, account |-> account]
            ELSE unregister_all(r.account, Tail(token_ids))

unregister_tokens(accts, sender_id, token_ids) ==
    IF sender_id \notin DOMAIN accts THEN Fail(ERR_ACCOUNT_NOT_REGISTERED, accts)
    ELSE LET r == unregister_all(accts[sender_id], token_ids)
         IN IF r.err # OK THEN Fail(r.err, accts)
            ELSE internal_save_account(accts, sender_id, r.account)

ft_on_transfer(accts, token_id, sender_id, amount, msg) ==
    IF msg # "" THEN Fail(ERR_MSG_NOT_EMPTY, accts)
    ELSE internal_save_information_to_contract(accts, sender_id, token_id, amount)

\* variant: the amount argument is handed on as it came, a 0 included
withdraw_unresolved(accts, sender_id, token_id, amount_arg, unreg) ==
    LET none == [err |-> OK, accounts |-> accts, amount |-> 0]
    IN
    IF sender_id \notin DOMAIN accts
    THEN [none EXCEPT !.err = ERR_ACCOUNT_NOT_REGISTERED]
    ELSE LET account == accts[sender_id] IN
    IF amount_arg = 0 /\ token_id \notin DOMAIN account.tokens
    THEN [none EXCEPT !.err = ERR21_TOKEN_NOT_REG]
    ELSE LET amount == IF amount_arg = 0 THEN account.tokens[token_id] ELSE amount_arg IN
    IF ~(amount > 0) THEN [none EXCEPT !.err = ERR29_ILLEGAL_WITHDRAW_AMOUNT]
    ELSE LET w == account_withdraw(account, token_id, amount) IN
    IF w.err # OK THEN [none EXCEPT !.err = w.err]
    ELSE LET u == IF unreg THEN unregister(w.account, token_id)
                  ELSE [err |-> OK, account |-> w.account] IN
    IF u.err # OK THEN [none EXCEPT !.err = u.err]
    ELSE LET s == internal_save_account(accts, sender_id, u.account) IN
    [err |-> s.err, accounts |-> s.accounts, amount |-> amount_arg]

\* Contract::withdraw up to the point where the promise is created; `amount`
\* in the result is the amount handed to internal_send_tokens
withdraw(accts, sender_id, token_id, amount_arg, unreg) ==
    LET none == [err |-> OK, accounts |-> accts, amount |-> 0]
    IN
    IF sender_id \notin DOMAIN accts
    THEN [none EXCEPT !.err = ERR_ACCOUNT_NOT_REGISTERED]
    ELSE LET account == accts[sender_id] IN
    IF amount_arg = 0 /\ token_id \notin DOMAIN account.tokens
    THEN [none EXCEPT !.err = ERR21_TOKEN_NOT_REG]
    ELSE LET amount == IF amount_arg = 0 THEN account.tokens[token_id] ELSE amount_arg IN
    IF ~(amount > 0) THEN [none EXCEPT !.err = ERR29_ILLEGAL_WITHDRAW_AMOUNT]
    ELSE LET w == account_withdraw(account, token_id, amount) IN
    IF w.err # OK THEN [none EXCEPT !.err = w.err]
    ELSE LET u == IF unreg THEN unregister(w.account, token_id)
                  ELSE [err |-> OK, account |-> w.account] IN
    IF u.err # OK THEN [none EXCEPT !.err = u.err]
    ELSE LET s == internal_save_account(accts, sender_id, u.account) IN
    [err |-> s.err, accounts |-> s.accounts, amount |-> IF s.err = OK THEN amount ELSE 0]

\* variant: the compensation does not look at the promise result
exchange_callback_ungated(accts, whitelist, token_id, sender_id, amount, result) ==
    LET found == sender_id \in DOMAIN accts
        d == IF found
             THEN deposit_with_storage_check(accts[sender_id], token_id, amount)
             ELSE [ok |-> FALSE, account |-> AccountNew]
    IN IF found /\ d.ok
       THEN Done(Put(accts, sender_id, d.account))
       ELSE internal_lostfound(accts, whitelist, token_id, amount)

\* Contract::exchange_callback_post_withdraw with the promise result `result`
exchange_callback_post_withdraw(accts, whitelist, token_id, sender_id, amount, result) ==
    IF result = "Successful" THEN Done(accts)
    ELSE LET found == sender_id \in DOMAIN accts
             d == IF found
                  THEN deposit_with_storage_check(accts[sender_id], token_id, amount)
                  ELSE [ok |-> FALSE, account |-> AccountNew]
         IN IF found /\ d.ok
            THEN Done(Put(accts, sender_id, d.account))
            ELSE internal_lostfound(accts, whitelist, token_id, amount)


----------------------------------------------------------------------------
(* SimplePool, simple_pool.rs.  `volumes` is never written by the code     *)
(* (there is no swap), so the record leaves it out.                        *)

NoPool == [token_account_ids |-> <<>>, amounts |-> <<>>, total_fee |-> 0,
           shares |-> EmptyMap, shares_total_supply |-> 0]

PFail(e, pool) == [err |-> e, pool |-> pool]
PDone(pool) == [err |-> OK, pool |-> pool]

SimplePool_new(token_account_ids, total_fee) ==
    IF ~(total_fee < FEE_DIVISOR) THEN PFail(ERR_FEE_TOO_LARGE, NoPool)
    ELSE IF Len(token_account_ids) # NUM_TOKENS
    THEN PFail(ERR_SHOULD_HAVE_2_TOKENS, NoPool)
    ELSE PDone([token_account_ids |-> token_account_ids,
                amounts |-> [i \in 1 .. Len(token_account_ids) |-> 0],
                total_fee |-> total_fee,
                shares |-> EmptyMap,
                shares_total_supply |-> 0])

share_register(pool, account_id) ==
    IF account_id \in DOMAIN pool.shares
    THEN PFail(ERR14_LP_ALREADY_REGISTERED, pool)
    ELSE PDone([pool EXCEPT !.shares = Put(pool.shares, account_id, 0)])

\* variant: a receiver without an entry gets one
share_transfer_creates(pool, sender_id, receiver_id, amount) ==
    IF sender_id \notin DOMAIN pool.shares THEN PFail(ERR_NO_SHARES, pool)
    ELSE LET balance == pool.shares[sender_id] IN
    IF balance < amount THEN PFail(ERR_NOT_ENOUGH_SHARES, pool)
    ELSE LET debited == Put(pool.shares, sender_id, balance - amount) IN
    PDone([pool EXCEPT !.shares =
               Put(debited, receiver_id, Get(debited, receiver_id, 0) + amount)])

\* variant: the receiver's balance is read before the sender's is stored
share_transfer_stale(pool, sender_id, receiver_id, amount) ==
    IF sender_id \notin DOMAIN pool.shares THEN PFail(ERR_NO_SHARES, pool)
    ELSE LET balance == pool.shares[sender_id] IN
    IF balance < amount THEN PFail(ERR_NOT_ENOUGH_SHARES, pool)
    ELSE LET debited == Put(pool.shares, sender_id, balance - amount) IN
    IF receiver_id \notin DOMAIN debited THEN PFail(ERR13_LP_NOT_REGISTERED, pool)
    ELSE PDone([pool EXCEPT !.shares =
                    Put(debited, receiver_id, pool.shares[receiver_id] + amount)])

\* the receiver's balance is read after the sender's new balance is stored
share_transfer(pool, sender_id, receiver_id, amount) ==
    IF sender_id \notin DOMAIN pool.shares THEN PFail(ERR_NO_SHARES, pool)
    ELSE LET balance == pool.shares[sender_id] IN
    IF balance < amount THEN PFail(ERR_NOT_ENOUGH_SHARES, pool)
    ELSE LET debited == Put(pool.shares, sender_id, balance - amount) IN
    IF receiver_id \notin DOMAIN debited THEN PFail(ERR13_LP_NOT_REGISTERED, pool)
    ELSE PDone([pool EXCEPT !.shares =
                    Put(debited, receiver_id, debited[receiver_id] + amount)])

share_balance_of(pool, account_id) == Get(pool.shares, account_id, 0)

\* utils.rs add_to_collection
add_to_collection(c, key, value) == Put(c, key, Get(c, key, 0) + value)

mint_shares(pool, account_id, shares) ==
    IF shares = 0 THEN pool
    ELSE [pool EXCEPT !.shares_total_supply = @ + shares,
                      !.shares = add_to_collection(pool.shares, account_id, shares)]

\* variant: the largest ratio is kept, not the smallest
RECURSIVE fair_supply_loop_max(_, _, _, _)
fair_supply_loop_max(pool, amounts, i, fair) ==
    IF i > Len(pool.token_account_ids) THEN [err |-> OK, fair_supply |-> fair]
    ELSE IF ~(amounts[i] > 0) THEN [err |-> ERR31_ZERO_AMOUNT, fair_supply |-> 0]
    ELSE IF pool.amounts[i] = 0 THEN [err |-> ERR_DIVIDE_BY_ZERO, fair_supply |-> 0]
    ELSE LET v == (amounts[i] * pool.shares_total_supply) \div pool.amounts[i]
         IN fair_supply_loop_max(pool, amounts, i + 1,
                                 IF fair = -1 \/ v > fair THEN v ELSE fair)

\* first loop of add_liquidity, simple_pool.rs:117-124; fair = -1 stands for
\* U256::max_value()
RECURSIVE fair_supply_loop(_, _, _, _)
fair_supply_loop(pool, amounts, i, fair) ==
    IF i > Len(pool.token_account_ids) THEN [err |-> OK, fair_supply |-> fair]
    ELSE IF ~(amounts[i] > 0) THEN [err |-> ERR31_ZERO_AMOUNT, fair_supply |-> 0]
    ELSE IF pool.amounts[i] = 0 THEN [err |-> ERR_DIVIDE_BY_ZERO, fair_supply |-> 0]
    ELSE LET v == (amounts[i] * pool.shares_total_supply) \div pool.amounts[i]
         IN fair_supply_loop(pool, amounts, i + 1,
                             IF fair = -1 THEN v ELSE Min(fair, v))

\* second loop, simple_pool.rs:125-132
actual_amount(pool, fair_supply, i) ==
    (pool.amounts[i] * fair_supply) \div pool.shares_total_supply

AFail(e, pool, amounts) == [err |-> e, pool |-> pool, amounts |-> amounts, shares |-> 0]

\* add_liquidity when shares are outstanding, simple_pool.rs:116-133, 141-142
add_more_liquidity(pool, sender_id, amounts) ==
    LET n == Len(pool.token_account_ids)
        f == fair_supply_loop(pool, amounts, 1, -1)
    IN
    IF f.err # OK THEN AFail(f.err, pool, amounts)
    ELSE LET actual == [i \in 1 .. n |-> actual_amount(pool, f.fair_supply, i)] IN
    IF \E i \in 1 .. n : ~(actual[i] > 0) THEN AFail(ERR31_ZERO_AMOUNT, pool, amounts)
    ELSE LET grown == [pool EXCEPT !.amounts =
                           [i \in 1 .. n |-> pool.amounts[i] + actual[i]]]
             minted == mint_shares(grown, sender_id, f.fair_supply)
         IN IF ~(f.fair_supply > 0) THEN AFail(ERR32_ZERO_SHARES, pool, amounts)
            ELSE [err |-> OK, pool |-> minted, amounts |-> actual,
                  shares |-> f.fair_supply]

\* variant: the first deposit mints as many shares as it deposits of token 0
add_first_liquidity_by_amount(pool, sender_id, amounts) ==
    LET n == Len(pool.token_account_ids)
        grown == [pool EXCEPT !.amounts =
                      [i \in 1 .. n |-> pool.amounts[i] + amounts[i]]]
        minted == mint_shares(grown, sender_id, amounts[1])
    IN IF ~(amounts[1] > 0) THEN AFail(ERR32_ZERO_SHARES, pool, amounts)
       ELSE [err |-> OK, pool |-> minted, amounts |-> amounts, shares |-> amounts[1]]

\* add_liquidity when no shares are outstanding, simple_pool.rs:134-142
add_first_liquidity(pool, sender_id, amounts) ==
    LET n == Len(pool.token_account_ids)
        grown == [pool EXCEPT !.amounts =
                      [i \in 1 .. n |-> pool.amounts[i] + amounts[i]]]
        minted == mint_shares(grown, sender_id, INIT_SHARES_SUPPLY)
    IN IF ~(INIT_SHARES_SUPPLY > 0) THEN AFail(ERR32_ZERO_SHARES, pool, amounts)
       ELSE [err |-> OK, pool |-> minted, amounts |-> amounts,
             shares |-> INIT_SHARES_SUPPLY]

\* SimplePool::add_liquidity; `amounts` in the result is the caller's vector as
\* the call leaves it, `shares` the return value
pool_add_liquidity(pool, sender_id, amounts) ==
    IF Len(amounts) # Len(pool.token_account_ids)
    THEN AFail("ERR_WRONG_TOKEN_COUNT", pool, amounts)
    ELSE IF pool.shares_total_supply > 0
    THEN add_more_liquidity(pool, sender_id, amounts)
    ELSE add_first_liquidity(pool, sender_id, amounts)

\* variant: shares_total_supply is not lowered
pool_remove_liquidity_supply(pool, sender_id, shares, min_amounts) ==
    LET fail(e) == [err |-> e, pool |-> pool, amounts |-> <<>>]
        n == Len(pool.token_account_ids)
    IN
    IF Len(min_amounts) # n THEN fail("ERR_WRONG_TOKEN_COUNT")
    ELSE IF sender_id \notin DOMAIN pool.shares THEN fail(ERR_NO_SHARES)
    ELSE LET prev_shares_amount == pool.shares[sender_id] IN
    IF ~(prev_shares_amount >= shares) THEN fail(ERR_NOT_ENOUGH_SHARES)
    ELSE IF pool.shares_total_supply = 0 THEN fail(ERR_DIVIDE_BY_ZERO)
    ELSE LET result == [i \in 1 .. n |->
                           (pool.amounts[i] * shares) \div pool.shares_total_supply] IN
    IF \E i \in 1 .. n : ~(result[i] >= min_amounts[i]) THEN fail(ERR_MIN_AMOUNT)
    ELSE [err |-> OK,
          pool |-> [pool EXCEPT
                       !.amounts = [i \in 1 .. n |-> pool.amounts[i] - result[i]],
                       !.shares = Put(pool.shares, sender_id,
                                      prev_shares_amount - shares)],
          amounts |-> result]

\* variant: only the first token is held against its minimum
pool_remove_liquidity_first_min(pool, sender_id, shares, min_amounts) ==
    LET fail(e) == [err |-> e, pool |-> pool, amounts |-> <<>>]
        n == Len(pool.token_account_ids)
    IN
    IF Len(min_amounts) # n THEN fail("ERR_WRONG_TOKEN_COUNT")
    ELSE IF sender_id \notin DOMAIN pool.shares THEN fail(ERR_NO_SHARES)
    ELSE LET prev_shares_amount == pool.shares[sender_id] IN
    IF ~(prev_shares_amount >= shares) THEN fail(ERR_NOT_ENOUGH_SHARES)
    ELSE IF pool.shares_total_supply = 0 THEN fail(ERR_DIVIDE_BY_ZERO)
    ELSE LET result == [i \in 1 .. n |->
                           (pool.amounts[i] * shares) \div pool.shares_total_supply] IN
    IF ~(result[1] >= min_amounts[1]) THEN fail(ERR_MIN_AMOUNT)
    ELSE [err |-> OK,
          pool |-> [pool EXCEPT
                       !.amounts = [i \in 1 .. n |-> pool.amounts[i] - result[i]],
                       !.shares = Put(pool.shares, sender_id,
                                      IF prev_shares_amount = shares THEN 0
                                      ELSE prev_shares_amount - shares),
                       !.shares_total_supply = @ - shares],
          amounts |-> result]

\* SimplePool::remove_liquidity; `amounts` is the returned vector
\* variant: the quotient is taken over one share more than the supply, so
\* that the last shares leave dust in the reserves
pool_remove_liquidity_dust(pool, sender_id, shares, min_amounts) ==
    LET fail(e) == [err |-> e, pool |-> pool, amounts |-> <<>>]
        n == Len(pool.token_account_ids)
    IN
    IF Len(min_amounts) # n THEN fail("ERR_WRONG_TOKEN_COUNT")
    ELSE IF sender_id \notin DOMAIN pool.shares THEN fail(ERR_NO_SHARES)
    ELSE LET prev_shares_amount == pool.shares[sender_id] IN
    IF ~(prev_shares_amount >= shares) THEN fail(ERR_NOT_ENOUGH_SHARES)
    ELSE IF pool.shares_total_supply = 0 THEN fail(ERR_DIVIDE_BY_ZERO)
    ELSE LET result == [i \in 1 .. n |->
                           (pool.amounts[i] * shares)
                               \div (pool.shares_total_supply + 1)] IN
    IF \E i \in 1 .. n : ~(result[i] >= min_amounts[i]) THEN fail(ERR_MIN_AMOUNT)
    ELSE [err |-> OK,
          pool |-> [pool EXCEPT
                       !.amounts = [i \in 1 .. n |-> pool.amounts[i] - result[i]],
                       !.shares = Put(pool.shares, sender_id,
                                      IF prev_shares_amount = shares THEN 0
                                      ELSE prev_shares_amount - shares),
                       !.shares_total_supply = @ - shares],
          amounts |-> result]

pool_remove_liquidity(pool, sender_id, shares, min_amounts) ==
    LET fail(e) == [err |-> e, pool |-> pool, amounts |-> <<>>]
        n == Len(pool.token_account_ids)
    IN
    IF Len(min_amounts) # n THEN fail("ERR_WRONG_TOKEN_COUNT")
    ELSE IF sender_id \notin DOMAIN pool.shares THEN fail(ERR_NO_SHARES)
    ELSE LET prev_shares_amount == pool.shares[sender_id] IN
    IF ~(prev_shares_amount >= shares) THEN fail(ERR_NOT_ENOUGH_SHARES)
    ELSE IF pool.shares_total_supply = 0 THEN fail(ERR_DIVIDE_BY_ZERO)
    ELSE LET result == [i \in 1 .. n |->
                           (pool.amounts[i] * shares) \div pool.shares_total_supply] IN
    IF \E i \in 1 .. n : ~(result[i] >= min_amounts[i]) THEN fail(ERR_MIN_AMOUNT)
    ELSE [err |-> OK,
          pool |-> [pool EXCEPT
                       !.amounts = [i \in 1 .. n |-> pool.amounts[i] - result[i]],
                       !.shares = Put(pool.shares, sender_id,
                                      IF prev_shares_amount = shares THEN 0
                                      ELSE prev_shares_amount - shares),
                       !.shares_total_supply = @ - shares],
          amounts |-> result]

\* variant: the quotient is rounded up
internal_get_return_ceil(pool, token_in, amount_in, token_out) ==
    LET in_balance == pool.amounts[token_in]
        out_balance == pool.amounts[token_out]
    IN IF ~(in_balance > 0 /\ out_balance > 0 /\ token_in # token_out /\ amount_in > 0)
       THEN [err |-> ERR_INVALID, amount_out |-> 0]
       ELSE LET amount_with_fee == amount_in * (FEE_DIVISOR - pool.total_fee)
                den == FEE_DIVISOR * in_balance + amount_with_fee
            IN [err |-> OK,
                amount_out |-> (amount_with_fee * out_balance + den - 1) \div den]

\* variant: the spot price, the input left out of the denominator
internal_get_return_spot(pool, token_in, amount_in, token_out) ==
    LET in_balance == pool.amounts[token_in]
        out_balance == pool.amounts[token_out]
    IN IF ~(in_balance > 0 /\ out_balance > 0 /\ token_in # token_out /\ amount_in > 0)
       THEN [err |-> ERR_INVALID, amount_out |-> 0]
       ELSE LET amount_with_fee == amount_in * (FEE_DIVISOR - pool.total_fee)
            IN IF out_balance > 0 /\ amount_with_fee > (2 ^ (2 * BalanceBits) - 1) \div out_balance
               THEN [err |-> ERR_OVERFLOW, amount_out |-> 0]
               ELSE [err |-> OK,
                     amount_out |-> (amount_with_fee * out_balance)
                                        \div (FEE_DIVISOR * in_balance)]

\* largest Balance and largest U256 at the model's widths
Balance_MAX == 2 ^ BalanceBits - 1
U256_max_value == 2 ^ (2 * BalanceBits) - 1

\* U256's `*` panics when the product does not fit
U256_mul_overflows(a, b) == b > 0 /\ a > U256_max_value \div b

\* SimplePool::internal_get_return; token_in, token_out index the token list
internal_get_return(pool, token_in, amount_in, token_out) ==
    LET in_balance == pool.amounts[token_in]
        out_balance == pool.amounts[token_out]
    IN IF ~(in_balance > 0 /\ out_balance > 0 /\ token_in # token_out /\ amount_in > 0)
       THEN [err |-> ERR_INVALID, amount_out |-> 0]
       ELSE LET amount_with_fee == amount_in * (FEE_DIVISOR - pool.total_fee)
            IN IF U256_mul_overflows(amount_with_fee, out_balance)
               THEN [err |-> ERR_OVERFLOW, amount_out |-> 0]
               ELSE [err |-> OK,
                     amount_out |-> (amount_with_fee * out_balance)
                                        \div (FEE_DIVISOR * in_balance + amount_with_fee)]

\* SimplePool::token_index: the position of the id in the token list, 0 if
\* there is none (the source panics)
token_index(pool, token_id) ==
    LET at == {i \in DOMAIN pool.token_account_ids : pool.token_account_ids[i] = token_id}
    IN IF at = {} THEN 0 ELSE CHOOSE i \in at : \A j \in at : i <= j

\* SimplePool::get_return
get_return(pool, token_in, amount_in, token_out) ==
    IF token_index(pool, token_in) = 0 \/ token_index(pool, token_out) = 0
    THEN [err |-> ERR_MISSING_TOKEN, amount_out |-> 0]
    ELSE internal_get_return(pool, token_index(pool, token_in), amount_in,
                             token_index(pool, token_out))

----------------------------------------------------------------------------
(* Contract entry points on the pools, lib.rs:220-290, 500-508.  pool_id   *)
(* counts from 0 as in the code; the sequence `pools` is indexed from 1.   *)

CFail(e, accts, pls) == [err |-> e, accounts |-> accts, pools |-> pls, ret |-> <<>>]

Range(s) == {s[i] : i \in DOMAIN s}

\* variant: the token list is not looked at
check_token_duplicates_none(tokens) == TRUE

\* utils.rs check_token_duplicates, as the condition asserted
check_token_duplicates(tokens) == Cardinality(Range(tokens)) = Len(tokens)

\* variant: the id is read after the pool was pushed
internal_add_pool_after(pls, pool) ==
    LET r == share_register(pool, current_account_id)
    IN IF r.err # OK THEN [err |-> r.err, pools |-> pls, id |-> 0]
       ELSE [err |-> OK, pools |-> Append(pls, r.pool), id |-> Len(pls) + 1]

\* Contract::internal_add_pool
internal_add_pool(pls, pool) ==
    LET r == share_register(pool, current_account_id)
    IN IF r.err # OK THEN [err |-> r.err, pools |-> pls, id |-> 0]
       ELSE [err |-> OK, pools |-> Append(pls, r.pool), id |-> Len(pls)]

add_simple_pool(pls, tokens, fee) ==
    IF ~check_token_duplicates(tokens)
    THEN [err |-> ERR_TOKEN_DUPLICATES, pools |-> pls, id |-> 0]
    ELSE LET p == SimplePool_new(tokens, fee)
         IN IF p.err # OK THEN [err |-> p.err, pools |-> pls, id |-> 0]
            ELSE internal_add_pool(pls, p.pool)

\* withdraw amounts[i] of tokens[i] for i = from .. Len(tokens), lib.rs:258-260
RECURSIVE withdraw_each(_, _, _, _)
withdraw_each(account, tokens, amounts, from) ==
    IF from > Len(tokens) THEN [err |-> OK, account |-> account]
    ELSE LET w == account_withdraw(account, tokens[from], amounts[from])
         IN IF w.err # OK THEN [err |-> w.err, account |-> account]
            ELSE withdraw_each(w.account, tokens, amounts, from + 1)

\* deposit amounts[i] of tokens[i], lib.rs:282-284
RECURSIVE deposit_each(_, _, _, _)
deposit_each(account, tokens, amounts, from) ==
    IF from > Len(tokens) THEN account
    ELSE deposit_each(deposit(account, tokens[from], amounts[from]),
                      tokens, amounts, from + 1)

\* variant: the ledger is debited by the requested amounts
add_liquidity_requested(accts, pls, sender_id, pool_id, amounts, min_amounts) ==
    IF ~(pool_id + 1 \in DOMAIN pls) THEN CFail(ERR_NO_POOL, accts, pls)
    ELSE LET a == pool_add_liquidity(pls[pool_id + 1], sender_id, amounts) IN
    IF a.err # OK THEN CFail(a.err, accts, pls)
    ELSE IF \E i \in (DOMAIN a.amounts) \cap (DOMAIN min_amounts) :
                ~(a.amounts[i] >= min_amounts[i])
    THEN CFail(ERR_MIN_AMOUNT, accts, pls)
    ELSE LET deposits == internal_unwrap_or_default_account(accts, sender_id)
             w == withdraw_each(deposits, a.pool.token_account_ids, amounts, 1) IN
    IF w.err # OK THEN CFail(w.err, accts, pls)
    ELSE LET s == internal_save_account(accts, sender_id, w.account) IN
    IF s.err # OK THEN CFail(s.err, accts, pls)
    ELSE [err |-> OK, accounts |-> s.accounts,
          pools |-> [pls EXCEPT ![pool_id + 1] = a.pool], ret |-> a.amounts]

\* Contract::add_liquidity; min_amounts = <<>> is None
add_liquidity(accts, pls, sender_id, pool_id, amounts, min_amounts) ==
    IF ~(pool_id + 1 \in DOMAIN pls) THEN CFail(ERR_NO_POOL, accts, pls)
    ELSE LET a == pool_add_liquidity(pls[pool_id + 1], sender_id, amounts) IN
    IF a.err # OK THEN CFail(a.err, accts, pls)
    ELSE IF \E i \in (DOMAIN a.amounts) \cap (DOMAIN min_amounts) :
                ~(a.amounts[i] >= min_amounts[i])
    THEN CFail(ERR_MIN_AMOUNT, accts, pls)
    ELSE LET deposits == internal_unwrap_or_default_account(accts, sender_id)
             w == withdraw_each(deposits, a.pool.token_account_ids, a.amounts, 1) IN
    IF w.err # OK THEN CFail(w.err, accts, pls)
    ELSE LET s == internal_save_account(accts, sender_id, w.account) IN
    IF s.err # OK THEN CFail(s.err, accts, pls)
    ELSE [err |-> OK, accounts |-> s.accounts,
          pools |-> [pls EXCEPT ![pool_id + 1] = a.pool], ret |-> a.amounts]

\* Contract::remove_liquidity.  The call frees no storage (the share entry
\* stays), so the refund of lib.rs:285-288 adds nothing.
\* variant: the credited account is stored without the storage assertion
remove_liquidity_unchecked(accts, pls, sender_id, pool_id, shares, min_amounts) ==
    IF ~(pool_id + 1 \in DOMAIN pls) THEN CFail(ERR_NO_POOL, accts, pls)
    ELSE LET r == pool_remove_liquidity(pls[pool_id + 1], sender_id, shares, min_amounts) IN
    IF r.err # OK THEN CFail(r.err, accts, pls)
    ELSE LET deposits == internal_unwrap_or_default_account(accts, sender_id)
             d == deposit_each(deposits, r.pool.token_account_ids, r.amounts, 1)
    IN [err |-> OK, accounts |-> Put(accts, sender_id, d),
        pools |-> [pls EXCEPT ![pool_id + 1] = r.pool], ret |-> r.amounts]

remove_liquidity(accts, pls, sender_id, pool_id, shares, min_amounts) ==
    IF ~(pool_id + 1 \in DOMAIN pls) THEN CFail(ERR_NO_POOL, accts, pls)
    ELSE LET r == pool_remove_liquidity(pls[pool_id + 1], sender_id, shares, min_amounts) IN
    IF r.err # OK THEN CFail(r.err, accts, pls)
    ELSE LET deposits == internal_unwrap_or_default_account(accts, sender_id)
             d == deposit_each(deposits, r.pool.token_account_ids, r.amounts, 1)
             s == internal_save_account(accts, sender_id, d) IN
    IF s.err # OK THEN CFail(s.err, accts, pls)
    ELSE [err |-> OK, accounts |-> s.accounts,
          pools |-> [pls EXCEPT ![pool_id + 1] = r.pool], ret |-> r.amounts]

----------------------------------------------------------------------------
(* Inputs of the actions *)

Amounts == 0 .. MaxAmount
TokenLists == {<<t>> : t \in Tokens} \cup {<<"t1", "t2">>}
MaxNear ==
    (INIT_ACCOUNT_STORAGE + Cardinality(Tokens) * TOKEN_ENTRY_STORAGE) * StorageByteCost
\* a rent deposit pays for the account and an entry for every token
RentAmounts == {MaxNear}
RentWithdrawals == {0, TOKEN_ENTRY_STORAGE * StorageByteCost}
PromiseResults == {"Successful", "Failed"}
\* the tokens the owner may put on the whitelist; "t2" stays an unvetted token
WhitelistCandidates == {"t1"}
PoolTokenLists == {<<"t1", "t2">>, <<"t1", "t1">>, <<"t1">>}
PoolFees == {30, FEE_DIVISOR}
AmountPairs == {<<a, b>> : a \in Amounts, b \in Amounts}
MinAmountLists == {<<>>, <<1, 1>>}
ShareAmounts == 0 .. (MaxAmount * ShareScale)
PoolAmountPairs == {<<a, b>> : a \in 0 .. MaxPoolAmount, b \in 0 .. MaxPoolAmount}
PoolShareAmounts == 0 .. (MaxPoolAmount * ShareScale)
QuoteFees == {0, 1, 30, FEE_DIVISOR - 1}

SumSeq(s) == SumOver(s, DOMAIN s)

\* units of `token` the contract holds: on the ledger, in flight, in the pools
LedgerTotal(accts, token) ==
    SumOver([a \in DOMAIN accts |-> Get(accts[a].tokens, token, 0)], DOMAIN accts)
PendingTotal(pend, token) ==
    SumOver([i \in DOMAIN pend |->
                IF pend[i].token_id = token THEN pend[i].amount ELSE 0],
            DOMAIN pend)
PoolReserve(pool, token) ==
    SumOver([i \in DOMAIN pool.amounts |->
                IF pool.token_account_ids[i] = token THEN pool.amounts[i] ELSE 0],
            DOMAIN pool.amounts)
PoolTotal(pls, token) ==
    SumOver([k \in DOMAIN pls |-> PoolReserve(pls[k], token)], DOMAIN pls)

RemoveAt(s, i) == [j \in 1 .. (Len(s) - 1) |-> IF j < i THEN s[j] ELSE s[j + 1]]

NoQuote == [phase |-> "off"]

----------------------------------------------------------------------------
(* State machine of the contract *)

Init ==
    /\ accounts = EmptyMap
    /\ whitelisted_tokens = {}
    /\ pools = <<>>
    /\ pending = <<>>
    /\ last = [op |-> "new", err |-> OK, path |-> ""]
    /\ q = NoQuote

\* A handler ran to its end: its writes are kept and the call is recorded.  A
\* handler that panics writes nothing (the host reverts the call), so it is no
\* step of the state machine; its error code is the handler operator's result.
Completed(op, r) ==
    /\ r.err = OK
    /\ last' = [op |-> op, err |-> OK, path |-> ""]
    /\ accounts' = r.accounts

\* storage_deposit / storage_withdraw (storage_impl.rs) have no body in the
\* source; the actions apply the internals they are declared to wrap
StorageDeposit ==
    \E account_id \in Principals, amount \in RentAmounts :
        /\ Get(accounts, account_id, AccountNew).near_amount + amount <= MaxNear
        /\ Completed("storage_deposit",
                     internal_register_account(accounts, account_id, amount))
        /\ UNCHANGED <<whitelisted_tokens, pools, pending, q>>

StorageWithdraw ==
    \E account_id \in Principals, amount \in RentWithdrawals :
        /\ Completed("storage_withdraw",
                     internal_storage_withdraw(accounts, account_id, amount))
        /\ UNCHANGED <<whitelisted_tokens, pools, pending, q>>

RegisterTokens ==
    \E sender_id \in Principals, token_ids \in TokenLists :
        /\ Completed("register_tokens", register_tokens(accounts, sender_id, token_ids))
        /\ UNCHANGED <<whitelisted_tokens, pools, pending, q>>

UnregisterTokens ==
    \E sender_id \in Principals, token_ids \in TokenLists :
        /\ Completed("unregister_tokens",
                     unregister_tokens(accounts, sender_id, token_ids))
        /\ UNCHANGED <<whitelisted_tokens, pools, pending, q>>

FtOnTransfer ==
    \E token_id \in Tokens, sender_id \in Principals, amount \in Amounts,
       msg \in {"", "swap"} :
        /\ LedgerTotal(accounts, token_id) + PendingTotal(pending, token_id)
               + PoolTotal(pools, token_id) + amount <= MaxSupply
        /\ Completed("ft_on_transfer",
                     ft_on_transfer(accounts, token_id, sender_id, amount, msg))
        /\ UNCHANGED <<whitelisted_tokens, pools, pending, q>>

\* Contract::withdraw: the debit is saved, then internal_send_tokens creates the
\* ft_transfer promise and chains the continuation with the same arguments
Withdraw ==
    \E sender_id \in Principals, token_id \in Tokens, amount \in Amounts,
       unreg \in BOOLEAN :
        LET r == withdraw(accounts, sender_id, token_id, amount, unreg) IN
        /\ Len(pending) < MaxPending
        /\ Completed("withdraw", r)
        /\ pending' = Append(pending, [token_id |-> token_id,
                                       sender_id |-> sender_id,
                                       amount |-> r.amount,
                                       result |-> "NotReady"])
        /\ UNCHANGED <<whitelisted_tokens, pools, q>>

\* the token contract runs ft_transfer: the promise result becomes final
FtTransferResolves ==
    \E i \in DOMAIN pending, result \in PromiseResults :
        /\ pending[i].result = "NotReady"
        /\ pending' = [pending EXCEPT ![i].result = result]
        /\ last' = [op |-> "ft_transfer", err |-> OK, path |-> result]
        /\ UNCHANGED <<accounts, whitelisted_tokens, pools, q>>

\* which branch of the continuation ran
CallbackPath(accts, w, r) ==
    IF w.result = "Successful" THEN "delivered"
    ELSE IF r.err # OK THEN "aborted"
    ELSE IF w.sender_id \in DOMAIN accts
            /\ deposit_with_storage_check(accts[w.sender_id], w.token_id, w.amount).ok
    THEN "restored"
    ELSE "lostfound"

\* variant: a continuation that panics leaves its promise to be run again
Callback_retries ==
    \E i \in DOMAIN pending :
        LET w == pending[i]
            r == exchange_callback_post_withdraw(accounts, whitelisted_tokens,
                     w.token_id, w.sender_id, w.amount, w.result)
        IN
        /\ w.result # "NotReady"
        /\ last' = [op |-> "exchange_callback_post_withdraw", err |-> r.err,
                    path |-> CallbackPath(accounts, w, r)]
        /\ accounts' = r.accounts
        /\ pending' = IF r.err = OK THEN RemoveAt(pending, i) ELSE pending
        /\ UNCHANGED <<whitelisted_tokens, pools, q>>

\* the continuation runs once, with the final result; the promise is consumed
\* even if the continuation panics
Callback ==
    \E i \in DOMAIN pending :
        LET w == pending[i]
            r == exchange_callback_post_withdraw(accounts, whitelisted_tokens,
                     w.token_id, w.sender_id, w.amount, w.result)
        IN
        /\ w.result # "NotReady"
        /\ last' = [op |-> "exchange_callback_post_withdraw", err |-> r.err,
                    path |-> CallbackPath(accounts, w, r)]
        /\ accounts' = r.accounts
        /\ pending' = RemoveAt(pending, i)
        /\ UNCHANGED <<whitelisted_tokens, pools, q>>

\* no entry point of the source writes whitelisted_tokens; the owner's
\* extension of the allow-list is modelled from the specification
ExtendWhitelistedTokens ==
    \E token_id \in WhitelistCandidates :
        /\ token_id \notin whitelisted_tokens
        /\ whitelisted_tokens' = whitelisted_tokens \cup {token_id}
        /\ last' = [op |-> "extend_whitelisted_tokens", err |-> OK, path |-> ""]
        /\ UNCHANGED <<accounts, pools, pending, q>>

AddSimplePool ==
    \E tokens \in PoolTokenLists, fee \in PoolFees :
        LET r == add_simple_pool(pools, tokens, fee) IN
        /\ Len(pools) < MaxPools
        /\ r.err = OK
        /\ pools' = r.pools
        /\ last' = [op |-> "add_simple_pool", err |-> OK, path |-> ""]
        /\ UNCHANGED <<accounts, whitelisted_tokens, pending, q>>

AddLiquidity ==
    \E sender_id \in Principals, pool_id \in 0 .. (MaxPools - 1),
       amounts \in AmountPairs, min_amounts \in MinAmountLists :
        LET r == add_liquidity(accounts, pools, sender_id, pool_id, amounts, min_amounts)
        IN
        /\ Completed("add_liquidity", r)
        /\ pools' = r.pools
        /\ UNCHANGED <<whitelisted_tokens, pending, q>>

RemoveLiquidity ==
    \E sender_id \in Principals, pool_id \in 0 .. (MaxPools - 1),
       shares \in ShareAmounts, min_amounts \in {<<0, 0>>, <<1, 1>>} :
        LET r == remove_liquidity(accounts, pools, sender_id, pool_id, shares,
                                  min_amounts)
        IN
        /\ Completed("remove_liquidity", r)
        /\ pools' = r.pools
        /\ UNCHANGED <<whitelisted_tokens, pending, q>>

\* the ledger and the withdrawal protocol
Next ==
    \/ StorageDeposit
    \/ StorageWithdraw
    \/ RegisterTokens
    \/ UnregisterTokens
    \/ FtOnTransfer
    \/ Withdraw
    \/ FtTransferResolves
    \/ Callback
    \/ ExtendWhitelistedTokens

Spec == Init /\ [][Next]_vars

\* the ledger and the pools behind the contract's liquidity entry points
NextLiquidity ==
    \/ StorageDeposit
    \/ StorageWithdraw
    \/ RegisterTokens
    \/ UnregisterTokens
    \/ FtOnTransfer
    \/ AddSimplePool
    \/ AddLiquidity
    \/ RemoveLiquidity

SpecLiquidity == Init /\ [][NextLiquidity]_vars

\* the promise at position i of the queue gets its result, and the
\* continuation of the promise at position i runs
ResolvesAt(i) ==
    /\ i \in DOMAIN pending
    /\ pending[i].result = "NotReady"
    /\ FtTransferResolves
    /\ pending'[i].result # "NotReady"

CallbackAt(i) ==
    /\ i \in DOMAIN pending
    /\ pending[i].result # "NotReady"
    /\ Callback
    /\ pending' = RemoveAt(pending, i)

\* the host runs every scheduled promise and delivers every result: a
\* transfer that can resolve does, a continuation that can run does
SpecLive ==
    /\ Init
    /\ [][Next]_vars
    /\ \A i \in 1 .. MaxPending : WF_vars(ResolvesAt(i)) /\ WF_vars(CallbackAt(i))

----------------------------------------------------------------------------
(* The pool engine driven directly: SimplePool's public methods on the     *)
(* pools that add_simple_pool created                                      *)

PoolStep(op, k, r) ==
    /\ r.err = OK
    /\ pools' = [pools EXCEPT ![k] = r.pool]
    /\ last' = [op |-> op, err |-> OK, path |-> ""]
    /\ UNCHANGED <<accounts, whitelisted_tokens, pending, q>>

PoolShareRegister ==
    \E k \in DOMAIN pools, account_id \in ShareHolders :
        PoolStep("share_register", k, share_register(pools[k], account_id))

PoolShareTransfer ==
    \E k \in DOMAIN pools, sender_id \in ShareHolders, receiver_id \in ShareHolders,
       amount \in PoolShareAmounts :
        PoolStep("share_transfer", k,
                 share_transfer(pools[k], sender_id, receiver_id, amount))

PoolAddLiquidity ==
    \E k \in DOMAIN pools, sender_id \in ShareHolders, amounts \in PoolAmountPairs :
        LET r == pool_add_liquidity(pools[k], sender_id, amounts) IN
        /\ \A i \in DOMAIN r.pool.amounts : r.pool.amounts[i] <= MaxReserve
        /\ PoolStep("pool_add_liquidity", k, r)

PoolRemoveLiquidity ==
    \E k \in DOMAIN pools, sender_id \in ShareHolders, shares \in PoolShareAmounts,
       min_amounts \in {<<0, 0>>, <<1, 1>>} :
        PoolStep("pool_remove_liquidity", k,
                 pool_remove_liquidity(pools[k], sender_id, shares, min_amounts))

NextPool ==
    \/ AddSimplePool
    \/ PoolShareRegister
    \/ PoolShareTransfer
    \/ PoolAddLiquidity
    \/ PoolRemoveLiquidity

SpecPool == Init /\ [][NextPool]_vars

----------------------------------------------------------------------------
(* Quoting: a request against a pool that holds its first deposit *)

\* the pool after add_simple_pool and a first deposit of `amounts`
FundedPool(amounts, fee) ==
    pool_add_liquidity(add_simple_pool(<<>>, <<"t1", "t2">>, fee).pools[1],
                       "alice", amounts).pool

InitQuote ==
    /\ accounts = EmptyMap
    /\ whitelisted_tokens = {}
    /\ pools = <<>>
    /\ pending = <<>>
    /\ last = [op |-> "new", err |-> OK, path |-> ""]
    /\ \E a \in 0 .. MaxReserve, b \in 0 .. MaxReserve, fee \in QuoteFees,
          token_in \in 1 .. NUM_TOKENS, token_out \in 1 .. NUM_TOKENS,
          amount_in \in 0 .. MaxReserve :
            q = [phase |-> "request", pool |-> FundedPool(<<a, b>>, fee),
                 token_in |-> token_in, token_out |-> token_out,
                 amount_in |-> amount_in, err |-> OK, amount_out |-> 0,
                 before |-> <<a, b>>]

\* SimplePool::internal_get_return answers the request
QuoteReturn ==
    /\ q.phase = "request"
    /\ LET r == internal_get_return(q.pool, q.token_in, q.amount_in, q.token_out)
       IN q' = [q EXCEPT !.phase = "quoted", !.err = r.err, !.amount_out = r.amount_out]
    /\ UNCHANGED <<accounts, whitelisted_tokens, pools, pending, last>>

\* the swap the specification describes, executed at the quoted price: the
\* source has no swap entry point
QuoteSwap ==
    /\ q.phase = "quoted"
    /\ q.err = OK
    /\ q' = [q EXCEPT !.phase = "swapped",
                      !.pool.amounts[q.token_in] = @ + q.amount_in,
                      !.pool.amounts[q.token_out] = @ - q.amount_out]
    /\ UNCHANGED <<accounts, whitelisted_tokens, pools, pending, last>>

NextQuote ==
    \/ QuoteReturn
    \/ QuoteSwap

SpecQuote == InitQuote /\ [][NextQuote]_vars

----------------------------------------------------------------------------
(* Quoting over the whole range of a Balance *)

WideAmounts == {0, 1, 2, 2 ^ (BalanceBits - 1), Balance_MAX}
WideTokens == {"t1", "t2", "t3"}

InitWide ==
    /\ accounts = EmptyMap
    /\ whitelisted_tokens = {}
    /\ pools = <<>>
    /\ pending = <<>>
    /\ last = [op |-> "new", err |-> OK, path |-> ""]
    /\ \E a \in WideAmounts, b \in WideAmounts, fee \in QuoteFees,
          token_in \in WideTokens, token_out \in WideTokens,
          amount_in \in WideAmounts :
            q = [phase |-> "get_return", pool |-> FundedPool(<<a, b>>, fee),
                 token_in |-> token_in, token_out |-> token_out,
                 amount_in |-> amount_in, err |-> OK, amount_out |-> 0,
                 before |-> FundedPool(<<a, b>>, fee)]

\* SimplePool::get_return answers the request; it borrows the pool immutably
GetReturn ==
    /\ q.phase = "get_return"
    /\ LET r == get_return(q.pool, q.token_in, q.amount_in, q.token_out)
       IN q' = [q EXCEPT !.phase = "returned", !.err = r.err, !.amount_out = r.amount_out]
    /\ UNCHANGED <<accounts, whitelisted_tokens, pools, pending, last>>

NextWide == GetReturn

SpecWide == InitWide /\ [][NextWide]_vars

----------------------------------------------------------------------------
(* Liquidity provision by accounts that paid their rent and deposited      *)
(* tokens: the state from which add_liquidity / remove_liquidity are used  *)

\* ft_on_transfer of `amount` of `token_id`, if there is anything to transfer
Deposited_by(accts, account_id, token_id, amount) ==
    IF amount = 0 THEN accts
    ELSE ft_on_transfer(accts, token_id, account_id, amount, "").accounts

\* the ledger after storage_deposit, register_tokens and the inbound
\* transfers of balances[1] of "t1" and balances[2] of "t2" by account_id
Funded(accts, account_id, balances) ==
    LET paid == internal_register_account(accts, account_id, MaxNear).accounts
        registered == register_tokens(paid, account_id, <<"t1", "t2">>).accounts
    IN Deposited_by(Deposited_by(registered, account_id, "t1", balances[1]),
                    account_id, "t2", balances[2])

Fundings == {<<a, b>> : a \in 0 .. MaxFunding, b \in 0 .. MaxFunding}

InitProvide ==
    /\ \E fa \in Fundings, fo \in Fundings :
           accounts = Funded(Funded(EmptyMap, "alice", fa), owner_id, fo)
    /\ whitelisted_tokens = {}
    /\ pools = <<>>
    /\ pending = <<>>
    /\ last = [op |-> "ft_on_transfer", err |-> OK, path |-> ""]
    /\ q = NoQuote

NextProvide ==
    \/ AddSimplePool
    \/ AddLiquidity
    \/ RemoveLiquidity

SpecProvide == InitProvide /\ [][NextProvide]_vars

----------------------------------------------------------------------------
(* Several pools side by side, one funded provider                         *)

PairTokenLists == {<<"t1", "t2">>, <<"t2", "t1">>, <<"t1", "t1">>, <<"t2">>}
PairFees == {0, 30, FEE_DIVISOR}
PairPoolIds == 0 .. (MaxPairPools - 1)

InitPair ==
    /\ accounts = Funded(EmptyMap, "alice", <<MaxAmount, MaxAmount>>)
    /\ whitelisted_tokens = {}
    /\ pools = <<>>
    /\ pending = <<>>
    /\ last = [op |-> "ft_on_transfer", err |-> OK, path |-> ""]
    /\ q = NoQuote

PairAddSimplePool ==
    \E tokens \in PairTokenLists, fee \in PairFees :
        LET r == add_simple_pool(pools, tokens, fee) IN
        /\ Len(pools) < MaxPairPools
        /\ r.err = OK
        /\ pools' = r.pools
        /\ last' = [op |-> "add_simple_pool", err |-> OK, path |-> ""]
        /\ UNCHANGED <<accounts, whitelisted_tokens, pending, q>>

PairAddLiquidity ==
    \E pool_id \in PairPoolIds, amounts \in AmountPairs :
        LET r == add_liquidity(accounts, pools, "alice", pool_id, amounts, <<>>) IN
        /\ Completed("add_liquidity", r)
        /\ pools' = r.pools
        /\ UNCHANGED <<whitelisted_tokens, pending, q>>

PairRemoveLiquidity ==
    \E pool_id \in PairPoolIds, shares \in ShareAmounts :
        LET r == remove_liquidity(accounts, pools, "alice", pool_id, shares, <<0, 0>>) IN
        /\ Completed("remove_liquidity", r)
        /\ pools' = r.pools
        /\ UNCHANGED <<whitelisted_tokens, pending, q>>

NextPair ==
    \/ PairAddSimplePool
    \/ PairAddLiquidity
    \/ PairRemoveLiquidity

SpecPair == InitPair /\ [][NextPair]_vars

----------------------------------------------------------------------------
(* Properties of the withdrawal protocol, checked under Spec *)

\* the step ran the continuation of the withdrawal w
RanContinuation(w) ==
    \E i \in DOMAIN pending : pending[i] = w /\ pending' = RemoveAt(pending, i)

\* the step is a withdraw whose synchronous phase completed and issued w
Issued(w) == pending' = Append(pending, w)

\* the ledger `accts` with `amount` more of `token` on the account of `who`,
\* the account and the token entry being created if absent
Credited(accts, who, token, amount) ==
    LET old == IF who \in DOMAIN accts THEN accts[who]
               ELSE [near_amount |-> 0, tokens |-> <<>>]
        bal == IF token \in DOMAIN old.tokens THEN old.tokens[token] ELSE 0
    IN [a \in (DOMAIN accts) \cup {who} |->
           IF a = who
           THEN [near_amount |-> old.near_amount,
                 tokens |-> [t \in (DOMAIN old.tokens) \cup {token} |->
                                IF t = token THEN bal + amount ELSE old.tokens[t]]]
           ELSE accts[a]]

\* rent needed by an account with n token entries
StorageCost(n) == (INIT_ACCOUNT_STORAGE + n * TOKEN_ENTRY_STORAGE) * StorageByteCost

\* at continuation time the sender exists and either still has the token
\* registered or has the rent to hold it again
CanRestore(accts, w) ==
    /\ w.sender_id \in DOMAIN accts
    /\ \/ w.token_id \in DOMAIN accts[w.sender_id].tokens
       \/ StorageCost(Cardinality(DOMAIN accts[w.sender_id].tokens) + 1)
              <= accts[w.sender_id].near_amount

Delivered(w) == w.result = "Successful" /\ accounts' = accounts
Restored(w) ==
    w.result = "Failed" /\ accounts' = Credited(accounts, w.sender_id, w.token_id, w.amount)
Parked(w) ==
    w.result = "Failed" /\ accounts' = Credited(accounts, owner_id, w.token_id, w.amount)
Aborted(w) ==
    /\ w.result = "Failed"
    /\ ~CanRestore(accounts, w)
    /\ w.token_id \notin whitelisted_tokens
    /\ accounts' = accounts
    /\ last'.err = ERR_LOSTFOUND

\* C1 as stated: once the continuation of a withdrawal has run, the debited
\* amount is delivered, restored to the sender or parked on the owner's
\* account: exactly one credit of the amount, or none when delivered
C1_ConservationAsStated ==
    [][\A w \in Range(pending) :
          RanContinuation(w) => Delivered(w) \/ Restored(w) \/ Parked(w)]_vars

\* C1 amended: the amount is delivered, restored or parked, except that a
\* failed transfer whose amount can neither be restored nor parked (token not
\* on the allow-list) aborts the continuation and credits no account
C1_Conservation ==
    [][\A w \in Range(pending) :
          RanContinuation(w) =>
              /\ Delivered(w) \/ Restored(w) \/ Parked(w) \/ Aborted(w)
              /\ w.amount > 0]_vars

C1_Witness ==
    /\ last.op = "exchange_callback_post_withdraw"
    /\ last.path = "lostfound"
    /\ owner_id \in DOMAIN accounts
    /\ \E t \in DOMAIN accounts[owner_id].tokens : accounts[owner_id].tokens[t] > 0

\* C2: a failed transfer whose sender can take the token back is restored on
\* top of the balance read at continuation time, nothing else changes; and
\* such a continuation running right after the debit gives back the ledger
\* the withdraw started from
C2_RestoreOnFailure ==
    [][/\ \A w \in Range(pending) :
             RanContinuation(w) /\ w.result = "Failed" /\ CanRestore(accounts, w)
                 => accounts' = Credited(accounts, w.sender_id, w.token_id, w.amount)
       /\ \A w \in Range(pending') :
             Issued(w) /\ CanRestore(accounts', w) =>
                 exchange_callback_post_withdraw(accounts', whitelisted_tokens,
                     w.token_id, w.sender_id, w.amount, "Failed").accounts = accounts
      ]_vars

C2_Witness ==
    /\ last.op = "exchange_callback_post_withdraw"
    /\ last.path = "restored"
    /\ \E a \in DOMAIN accounts : \E t \in DOMAIN accounts[a].tokens :
           accounts[a].tokens[t] = MaxSupply

\* the account of `who`, absent or not, is the same before and after the step
AccountUntouched(who) ==
    /\ (who \in DOMAIN accounts') = (who \in DOMAIN accounts)
    /\ who \in DOMAIN accounts => accounts'[who] = accounts[who]

BalanceOf(accts, who, token) ==
    IF who \in DOMAIN accts /\ token \in DOMAIN accts[who].tokens
    THEN accts[who].tokens[token] ELSE 0

\* C3 as stated: a failed transfer that cannot be restored, of an allow-listed
\* token, adds the amount to the owner's balance and leaves the sender's
\* account as it was
C3_LostFoundAsStated ==
    [][\A w \in Range(pending) :
          RanContinuation(w) /\ w.result = "Failed" /\ ~CanRestore(accounts, w)
              /\ w.token_id \in whitelisted_tokens
          => /\ BalanceOf(accounts', owner_id, w.token_id)
                    = BalanceOf(accounts, owner_id, w.token_id) + w.amount
             /\ AccountUntouched(w.sender_id)]_vars

\* C3 amended: the amount is added to the owner's balance and every other
\* account is left as it was; the sender's account is left as it was unless
\* the sender is the owner
C3_LostFound ==
    [][\A w \in Range(pending) :
          RanContinuation(w) /\ w.result = "Failed" /\ ~CanRestore(accounts, w)
              /\ w.token_id \in whitelisted_tokens
          => /\ accounts' = Credited(accounts, owner_id, w.token_id, w.amount)
             /\ w.sender_id # owner_id => AccountUntouched(w.sender_id)]_vars

C3_Witness ==
    /\ last.op = "exchange_callback_post_withdraw"
    /\ last.path = "lostfound"
    /\ "alice" \in DOMAIN accounts
    /\ owner_id \in DOMAIN accounts
    /\ accounts[owner_id].near_amount = 0

\* C4: a failed transfer that cannot be restored, of a token that is not on
\* the allow-list, aborts the continuation and changes no account
C4_NotWhitelistedAborts ==
    [][\A w \in Range(pending) :
          RanContinuation(w) /\ w.result = "Failed" /\ ~CanRestore(accounts, w)
              /\ w.token_id \notin whitelisted_tokens
          => accounts' = accounts /\ last'.err = ERR_LOSTFOUND]_vars

C4_Witness ==
    /\ last.op = "exchange_callback_post_withdraw"
    /\ last.err = ERR_LOSTFOUND
    /\ last.path = "aborted"

\* C5: the continuation of a withdrawal runs once, on the final result; it
\* changes the ledger only on Failed, and then by one credit of the amount;
\* on Successful the contract's holdings stay lowered by the amount
C5_CompensationGated ==
    [][\A w \in Range(pending) :
          RanContinuation(w) =>
              /\ w.result \in PromiseResults
              /\ Len(pending') = Len(pending) - 1
              /\ w.result = "Successful" =>
                     /\ accounts' = accounts
                     /\ LedgerTotal(accounts', w.token_id)
                            + PendingTotal(pending', w.token_id)
                        = LedgerTotal(accounts, w.token_id)
                            + PendingTotal(pending, w.token_id) - w.amount
              /\ accounts' # accounts =>
                     /\ w.result = "Failed"
                     /\ LedgerTotal(accounts', w.token_id)
                            = LedgerTotal(accounts, w.token_id) + w.amount
                     /\ \A t \in Tokens \ {w.token_id} :
                            LedgerTotal(accounts', t) = LedgerTotal(accounts, t)]_vars

C5_Witness ==
    /\ last.op = "exchange_callback_post_withdraw"
    /\ last.path = "delivered"
    /\ \E a \in DOMAIN accounts : \E t \in DOMAIN accounts[a].tokens :
           accounts[a].tokens[t] > 0

\* the rent of the account covers its storage
Covered(account) ==
    StorageCost(Cardinality(DOMAIN account.tokens)) <= account.near_amount

\* C6 as stated: every account of the ledger, the owner's included, has its
\* storage covered by its rent
C6_StorageRentAsStated ==
    \A a \in DOMAIN accounts : Covered(accounts[a])

\* C6 amended: every account but the owner's has its storage covered; the
\* owner's account loses its cover only by a lost-and-found credit
C6_StorageRent ==
    /\ [](\A a \in (DOMAIN accounts) \ {owner_id} : Covered(accounts[a]))
    /\ [][(owner_id \in DOMAIN accounts => Covered(accounts[owner_id]))
             /\ owner_id \in DOMAIN accounts' /\ ~Covered(accounts'[owner_id])
          => last'.path = "lostfound"]_vars

C6_Witness ==
    /\ last.op = "register_tokens"
    /\ "alice" \in DOMAIN accounts
    /\ accounts["alice"].near_amount = StorageCost(1)
    /\ Cardinality(DOMAIN accounts["alice"].tokens) = 1

----------------------------------------------------------------------------
(* Properties of the pool engine, checked under SpecPool and SpecQuote *)

\* C7: in every pool the share balances add up to shares_total_supply
C7_ShareAccounting ==
    \A k \in DOMAIN pools : SumMap(pools[k].shares) = pools[k].shares_total_supply

C7_Witness ==
    /\ last.op = "share_transfer"
    /\ \E k \in DOMAIN pools :
           /\ pools[k].shares_total_supply > INIT_SHARES_SUPPLY
           /\ \E a \in DOMAIN pools[k].shares, b \in DOMAIN pools[k].shares :
                  a # b /\ pools[k].shares[a] > 0 /\ pools[k].shares[b] > 0

\* C8: a quote exists whenever both reserves and the amount are positive and
\* the two tokens differ, and the swap executed at the quoted price does not
\* lower the product of the reserves; it raises it when the fee is positive
C8_ConstantProduct ==
    /\ q.phase = "quoted" /\ q.before[1] > 0 /\ q.before[2] > 0 /\ q.amount_in > 0
           /\ q.token_in # q.token_out
       => q.err = OK
    /\ q.phase = "swapped"
       => /\ q.pool.amounts[q.token_in] = q.before[q.token_in] + q.amount_in
          /\ q.pool.amounts[q.token_out] = q.before[q.token_out] - q.amount_out
          /\ q.pool.amounts[1] * q.pool.amounts[2] >= q.before[1] * q.before[2]
          /\ q.pool.total_fee > 0
             => q.pool.amounts[1] * q.pool.amounts[2] > q.before[1] * q.before[2]

C8_Witness ==
    /\ q.phase = "swapped"
    /\ q.pool.total_fee > 0
    /\ q.amount_out > 0

\* C9: a pool without shares and with empty reserves takes any first deposit:
\* it mints INIT_SHARES_SUPPLY to the provider, hands back the requested
\* amounts unchanged and holds exactly those amounts
C9_FirstDeposit ==
    \A k \in DOMAIN pools :
        pools[k].shares_total_supply = 0 /\ pools[k].amounts = <<0, 0>>
        => \A sender_id \in ShareHolders, amounts \in PoolAmountPairs :
               LET r == pool_add_liquidity(pools[k], sender_id, amounts) IN
               /\ r.err = OK
               /\ r.shares = INIT_SHARES_SUPPLY
               /\ r.amounts = amounts
               /\ r.pool.amounts = amounts
               /\ r.pool.shares_total_supply = INIT_SHARES_SUPPLY
               /\ sender_id \in DOMAIN r.pool.shares
               /\ r.pool.shares[sender_id]
                      = INIT_SHARES_SUPPLY
                          + (IF sender_id \in DOMAIN pools[k].shares
                             THEN pools[k].shares[sender_id] ELSE 0)

C9_Witness ==
    /\ last.op = "pool_add_liquidity"
    /\ \E k \in DOMAIN pools :
           /\ pools[k].shares_total_supply = INIT_SHARES_SUPPLY
           /\ pools[k].amounts = <<0, MaxPoolAmount>>
           /\ \E a \in DOMAIN pools[k].shares :
                  pools[k].shares[a] = INIT_SHARES_SUPPLY

MinOf(S) == CHOOSE x \in S : \A y \in S : x <= y

\* the claim's fair_supply and actual_amounts, for positive reserves
FairSupply(pool, requested) ==
    MinOf({(requested[i] * pool.shares_total_supply) \div pool.amounts[i] :
              i \in DOMAIN pool.amounts})
ActualAmounts(pool, requested) ==
    [i \in DOMAIN pool.amounts |->
        (pool.amounts[i] * FairSupply(pool, requested)) \div pool.shares_total_supply]

\* the deposit went through: reserves grow by `actual`, `fair` shares minted
Deposited(pool, sender_id, r, actual, fair) ==
    /\ r.err = OK
    /\ r.amounts = actual
    /\ r.shares = fair
    /\ r.pool.amounts = [i \in DOMAIN pool.amounts |-> pool.amounts[i] + actual[i]]
    /\ r.pool.shares_total_supply = pool.shares_total_supply + fair
    /\ r.pool.shares = [a \in (DOMAIN pool.shares) \cup {sender_id} |->
                           IF a = sender_id
                           THEN fair + (IF a \in DOMAIN pool.shares
                                        THEN pool.shares[a] ELSE 0)
                           ELSE pool.shares[a]]

FirstZero(pool, requested) ==
    MinOf({i \in 1 .. 2 : requested[i] = 0 \/ pool.amounts[i] = 0})

----------------------------------------------------------------------------
(* Properties of the liquidity entry points, checked under SpecLiquidity *)

\* what the pool engine would consume of `amounts`, whoever provides them
Consumed(pool, sender_id, amounts) == pool_add_liquidity(pool, sender_id, amounts)

\* the provider holds at least amounts[i] of every token of the pool
CanPay(accts, sender_id, tokens, amounts) ==
    /\ sender_id \in DOMAIN accts
    /\ \A i \in DOMAIN tokens :
           /\ tokens[i] \in DOMAIN accts[sender_id].tokens
           /\ accts[sender_id].tokens[tokens[i]] >= amounts[i]

\* C11: a successful add_liquidity consumes no more than requested, lowers the
\* provider's balance of each token by exactly what the reserve grows by and
\* touches no other account or pool; a provider who lacks a token entry or
\* the consumed amount makes it fail, and a failure changes nothing
C11_AddLiquidityDebit ==
    \A sender_id \in Principals, pool_id \in 0 .. (MaxPools - 1),
       amounts \in AmountPairs, min_amounts \in MinAmountLists :
        LET r == add_liquidity(accounts, pools, sender_id, pool_id, amounts, min_amounts)
            k == pool_id + 1
        IN
        /\ r.err # OK => r.accounts = accounts /\ r.pools = pools
        /\ r.err = OK =>
               /\ \A i \in 1 .. NUM_TOKENS :
                      LET t == pools[k].token_account_ids[i]
                          used == r.pools[k].amounts[i] - pools[k].amounts[i]
                      IN /\ r.ret[i] = used
                         /\ 0 <= used /\ used <= amounts[i]
                         /\ t \in DOMAIN accounts[sender_id].tokens
                         /\ r.accounts[sender_id].tokens[t]
                                = accounts[sender_id].tokens[t] - used
               /\ \A a \in (DOMAIN accounts) \ {sender_id} : r.accounts[a] = accounts[a]
               /\ DOMAIN r.accounts = DOMAIN accounts
               /\ r.accounts[sender_id].near_amount = accounts[sender_id].near_amount
               /\ \A j \in (DOMAIN pools) \ {k} : r.pools[j] = pools[j]
        /\ k \in DOMAIN pools
           /\ Consumed(pools[k], sender_id, amounts).err = OK
           /\ ~CanPay(accounts, sender_id, pools[k].token_account_ids,
                      Consumed(pools[k], sender_id, amounts).amounts)
           => r.err \in {ERR21_TOKEN_NOT_REG, ERR22_NOT_ENOUGH_TOKENS, ERR_MIN_AMOUNT}

\* a second provider joined a pool that already held a first deposit
C11_Witness ==
    /\ last.op = "add_liquidity"
    /\ \E k \in DOMAIN pools :
           /\ pools[k].shares_total_supply > INIT_SHARES_SUPPLY
           /\ \E a \in Principals, b \in Principals :
                  /\ a # b
                  /\ a \in DOMAIN pools[k].shares /\ pools[k].shares[a] > 0
                  /\ b \in DOMAIN pools[k].shares /\ pools[k].shares[b] > 0


\* minimum amounts a provider asks for when removing liquidity
RemoveMinAmounts == {<<0, 0>>, <<1, 1>>, <<1, 0>>}

\* the share of reserve i that `shares` shares stand for
ShareOf(pool, shares, i) == (pool.amounts[i] * shares) \div pool.shares_total_supply

\* C12: a successful remove_liquidity returns floor(reserve * shares / total)
\* of each token, lowers each reserve by that amount and lowers the
\* provider's balance and shares_total_supply by `shares`; removing the whole
\* balance leaves exactly 0; after the step the shares still add up
C12_RemoveLiquidityResult ==
    \A k \in DOMAIN pools, sender_id \in ShareHolders, shares \in PoolShareAmounts,
       min_amounts \in RemoveMinAmounts :
        LET pool == pools[k]
            r == pool_remove_liquidity(pool, sender_id, shares, min_amounts)
        IN r.err = OK =>
               /\ sender_id \in DOMAIN pool.shares
               /\ \A i \in 1 .. NUM_TOKENS :
                      /\ r.amounts[i] = ShareOf(pool, shares, i)
                      /\ r.pool.amounts[i] = pool.amounts[i] - r.amounts[i]
                      /\ r.pool.amounts[i] >= 0
               /\ r.pool.shares[sender_id] = pool.shares[sender_id] - shares
               /\ r.pool.shares_total_supply = pool.shares_total_supply - shares
               /\ shares = pool.shares[sender_id] => r.pool.shares[sender_id] = 0
               /\ DOMAIN r.pool.shares = DOMAIN pool.shares
               /\ \A a \in (DOMAIN pool.shares) \ {sender_id} :
                      r.pool.shares[a] = pool.shares[a]
               /\ SumMap(r.pool.shares) = r.pool.shares_total_supply

\* a provider removed a whole balance while another one still holds shares
C12_Witness ==
    /\ last.op = "pool_remove_liquidity"
    /\ \E k \in DOMAIN pools :
           /\ pools[k].shares_total_supply > 0
           /\ pools[k].amounts[1] > 0
           /\ \E a \in Principals : a \in DOMAIN pools[k].shares /\ pools[k].shares[a] = 0

\* C13: remove_liquidity fails with NoShares for a provider without a share
\* entry, with NotEnoughShares for more shares than the provider holds, with
\* MinAmountNotMet when a token's amount is below its minimum (the second
\* token's too); a failing call leaves pools and ledger as they were
C13_RemoveLiquidityFailures ==
    \A pool_id \in 0 .. (MaxPools - 1), sender_id \in Principals,
       shares \in ShareAmounts, min_amounts \in RemoveMinAmounts :
        LET k == pool_id + 1
            r == remove_liquidity(accounts, pools, sender_id, pool_id, shares,
                                  min_amounts)
        IN
        /\ r.err # OK => r.accounts = accounts /\ r.pools = pools
        /\ k \in DOMAIN pools =>
               LET pool == pools[k] IN
               IF sender_id \notin DOMAIN pool.shares
               THEN r.err = ERR_NO_SHARES
               ELSE IF shares > pool.shares[sender_id]
               THEN r.err = ERR_NOT_ENOUGH_SHARES
               ELSE pool.shares_total_supply > 0
                    /\ (\E i \in 1 .. NUM_TOKENS : ShareOf(pool, shares, i) < min_amounts[i])
                    => r.err = ERR_MIN_AMOUNT

\* a removal whose first token meets its minimum and whose second does not
C13_Witness ==
    /\ last.op = "add_liquidity"
    /\ \E k \in DOMAIN pools, sender_id \in Principals, shares \in ShareAmounts :
           /\ sender_id \in DOMAIN pools[k].shares
           /\ shares <= pools[k].shares[sender_id]
           /\ pools[k].shares_total_supply > 0
           /\ ShareOf(pools[k], shares, 1) >= 1
           /\ ShareOf(pools[k], shares, 2) < 1
           /\ remove_liquidity(accounts, pools, sender_id, k - 1, shares, <<1, 1>>).err
                  = ERR_MIN_AMOUNT

----------------------------------------------------------------------------
(* Properties of the ledger entry points, checked under Spec *)

\* C14: unregister_tokens with a token whose balance is not 0 fails with
\* NonZeroTokenBalance and removes none of the listed tokens; no step of
\* unregister_tokens removes or changes an entry with a nonzero balance
C14_UnregisterNonZero ==
    /\ [](\A sender_id \in DOMAIN accounts, token_ids \in TokenLists :
             (\E i \in DOMAIN token_ids :
                 BalanceOf(accounts, sender_id, token_ids[i]) > 0)
             => LET r == unregister_tokens(accounts, sender_id, token_ids)
                IN r.err = ERR24_NON_ZERO_TOKEN_BALANCE /\ r.accounts = accounts)
    /\ [][last'.op = "unregister_tokens"
          => \A a \in DOMAIN accounts : \A t \in DOMAIN accounts[a].tokens :
                 accounts[a].tokens[t] > 0
                 => /\ a \in DOMAIN accounts'
                    /\ t \in DOMAIN accounts'[a].tokens
                    /\ accounts'[a].tokens[t] = accounts[a].tokens[t]]_vars

\* an account unregistered an empty entry and keeps a funded one, so that a
\* call listing both tokens is refused
C14_Witness ==
    /\ last.op = "unregister_tokens"
    /\ \E a \in DOMAIN accounts :
           /\ DOMAIN accounts[a].tokens = {"t1"}
           /\ accounts[a].tokens["t1"] > 0
           /\ unregister_tokens(accounts, a, <<"t1", "t2">>).err
                  = ERR24_NON_ZERO_TOKEN_BALANCE

\* C15: register_tokens fails with InsufficientStorage, adding no token, when
\* the rent does not cover the account with the new entries; otherwise it
\* adds the missing tokens with balance 0; a token already present keeps its
\* balance either way
C15_RegisterTokens ==
    \A sender_id \in DOMAIN accounts, token_ids \in TokenLists :
        LET account == accounts[sender_id]
            wanted == (DOMAIN account.tokens) \cup Range(token_ids)
            r == register_tokens(accounts, sender_id, token_ids)
        IN /\ \A a \in (DOMAIN accounts) \ {sender_id} : r.accounts[a] = accounts[a]
           /\ DOMAIN r.accounts = DOMAIN accounts
           /\ \A t \in DOMAIN account.tokens :
                  /\ t \in DOMAIN r.accounts[sender_id].tokens
                  /\ r.accounts[sender_id].tokens[t] = account.tokens[t]
           /\ IF StorageCost(Cardinality(wanted)) > account.near_amount
              THEN /\ r.err = ERR11_INSUFFICIENT_STORAGE
                   /\ r.accounts = accounts
              ELSE /\ r.err = OK
                   /\ DOMAIN r.accounts[sender_id].tokens = wanted
                   /\ \A t \in wanted \ DOMAIN account.tokens :
                          r.accounts[sender_id].tokens[t] = 0
                   /\ r.accounts[sender_id].near_amount = account.near_amount

\* an account registered a token it can pay for, holds a balance of it, and
\* cannot pay for a second one
C15_Witness ==
    /\ last.op = "ft_on_transfer"
    /\ \E a \in DOMAIN accounts :
           /\ DOMAIN accounts[a].tokens = {"t1"}
           /\ accounts[a].tokens["t1"] > 0
           /\ accounts[a].near_amount = StorageCost(1)
           /\ register_tokens(accounts, a, <<"t1", "t2">>).err
                  = ERR11_INSUFFICIENT_STORAGE


\* the sender's account after the debit of `amount` of `token`, the entry
\* removed if `unreg`
Debited(account, token, amount, unreg) ==
    [near_amount |-> account.near_amount,
     tokens |-> [t \in (DOMAIN account.tokens) \ (IF unreg THEN {token} ELSE {}) |->
                    IF t = token THEN account.tokens[t] - amount
                    ELSE account.tokens[t]]]

\* C16: withdraw takes amount 0 as the whole balance; it fails with
\* TokenNotRegistered without an entry, IllegalAmount for a resolved amount
\* of 0, NotEnoughFunds above the balance, NonZeroBalance if unregister is
\* asked and a balance is left; a failure changes nothing and issues no
\* transfer; a success persists the debit (and the unregistration) and
\* issues the transfer of the resolved amount to the sender in the same step
C16_WithdrawSynchronous ==
    /\ [](\A sender_id \in DOMAIN accounts, token_id \in Tokens,
             amount_arg \in Amounts, unreg \in BOOLEAN :
             LET account == accounts[sender_id]
                 r == withdraw(accounts, sender_id, token_id, amount_arg, unreg)
                 balance == BalanceOf(accounts, sender_id, token_id)
                 resolved == IF amount_arg = 0 THEN balance ELSE amount_arg
             IN
             /\ r.err # OK => r.accounts = accounts /\ r.amount = 0
             /\ IF token_id \notin DOMAIN account.tokens
                THEN r.err = ERR21_TOKEN_NOT_REG
                ELSE IF resolved = 0 THEN r.err = ERR29_ILLEGAL_WITHDRAW_AMOUNT
                ELSE IF resolved > balance THEN r.err = ERR22_NOT_ENOUGH_TOKENS
                ELSE IF unreg /\ balance - resolved # 0
                THEN r.err = ERR24_NON_ZERO_TOKEN_BALANCE
                ELSE IF ~Covered(Debited(account, token_id, resolved, unreg))
                THEN r.err = ERR11_INSUFFICIENT_STORAGE
                ELSE /\ r.err = OK
                     /\ r.amount = resolved
                     /\ r.accounts = [accounts EXCEPT ![sender_id] =
                                          Debited(account, token_id, resolved, unreg)])
    /\ [][Len(pending') > Len(pending)
          => /\ last'.op = "withdraw"
             /\ \E w \in Range(pending') :
                    /\ Issued(w)
                    /\ w.result = "NotReady"
                    /\ w.amount > 0
                    /\ w.sender_id \in DOMAIN accounts
                    /\ BalanceOf(accounts', w.sender_id, w.token_id)
                           = BalanceOf(accounts, w.sender_id, w.token_id) - w.amount
                    /\ \A a \in (DOMAIN accounts) \ {w.sender_id} :
                           accounts'[a] = accounts[a]
          ]_vars
    /\ [][last'.op = "withdraw" /\ accounts' # accounts => Len(pending') = Len(pending) + 1]_vars

\* a whole balance was withdrawn with unregistration and its transfer issued
C16_Witness ==
    /\ last.op = "withdraw"
    /\ \E i \in DOMAIN pending :
           /\ pending[i].amount = MaxSupply
           /\ pending[i].result = "NotReady"
           /\ pending[i].sender_id \in DOMAIN accounts
           /\ pending[i].token_id \notin DOMAIN accounts[pending[i].sender_id].tokens

----------------------------------------------------------------------------
(* Properties of pool creation and of the pool collection *)

\* the failures of pool creation whose condition holds for the arguments
CreationFailures(tokens, fee) ==
    (IF fee >= FEE_DIVISOR THEN {ERR_FEE_TOO_LARGE} ELSE {})
    \cup (IF Len(tokens) # 2 THEN {ERR_SHOULD_HAVE_2_TOKENS} ELSE {})
    \cup (IF Cardinality(Range(tokens)) # Len(tokens) THEN {ERR_TOKEN_DUPLICATES} ELSE {})

\* add_simple_pool refuses bad arguments with a failure that applies to them
\* and otherwise appends an empty pool whose only share entry is a zero
\* balance of `holder`, returning the number of pools there were
CreatesPool(holder) ==
    \A tokens \in PoolTokenLists, fee \in PoolFees :
        LET r == add_simple_pool(pools, tokens, fee) IN
        IF CreationFailures(tokens, fee) # {}
        THEN r.err \in CreationFailures(tokens, fee) /\ r.pools = pools
        ELSE /\ r.err = OK
             /\ r.id = Len(pools)
             /\ Len(r.pools) = Len(pools) + 1
             /\ \A k \in DOMAIN pools : r.pools[k] = pools[k]
             /\ LET pool == r.pools[Len(pools) + 1] IN
                    /\ pool.token_account_ids = tokens
                    /\ pool.total_fee = fee
                    /\ pool.amounts = <<0, 0>>
                    /\ pool.shares_total_supply = 0
                    /\ holder \in DOMAIN pool.shares
                    /\ pool.shares[holder] = 0

\* C17 as stated: the zero-share entry of a new pool is the operator's
C17_CreatePoolAsStated == CreatesPool(owner_id)

\* C17 amended: the zero-share entry of a new pool is the one of the
\* contract's own account
C17_CreatePool == CreatesPool(current_account_id)

C17_Witness ==
    /\ last.op = "add_simple_pool"
    /\ Len(pools) = MaxPools
    /\ pools[MaxPools].shares = [a \in {current_account_id} |-> 0]
    /\ pools[MaxPools].amounts = <<0, 0>>


\* C18: every pool has two distinct token ids and a fee below FEE_DIVISOR;
\* pools are never removed, a pool keeps its index, token ids and fee, and a
\* step changes at most one pool
C18_PoolStructure ==
    /\ [](\A k \in DOMAIN pools :
             /\ Len(pools[k].token_account_ids) = 2
             /\ pools[k].token_account_ids[1] # pools[k].token_account_ids[2]
             /\ pools[k].total_fee < FEE_DIVISOR)
    /\ [][/\ Len(pools') >= Len(pools)
          /\ \A k \in DOMAIN pools :
                 /\ pools'[k].token_account_ids = pools[k].token_account_ids
                 /\ pools'[k].total_fee = pools[k].total_fee
          /\ Cardinality({k \in DOMAIN pools : pools'[k] # pools[k]}) <= 1
          /\ Len(pools') > Len(pools)
                 => \A k \in DOMAIN pools : pools'[k] = pools[k]]_vars

\* liquidity was removed from the second pool while the first, with other
\* token ids and fee, holds reserves
C18_Witness ==
    /\ last.op = "remove_liquidity"
    /\ Len(pools) = 2
    /\ pools[1].token_account_ids # pools[2].token_account_ids
    /\ pools[1].total_fee # pools[2].total_fee
    /\ pools[1].amounts[1] > 0
    /\ pools[2].shares_total_supply = 0
    /\ "alice" \in DOMAIN pools[2].shares


----------------------------------------------------------------------------
(* Properties of quoting over the whole range of a Balance, under SpecWide *)

\* floor(a * b / d) and the remainder, one bit of b at a time, so that no
\* intermediate value exceeds 3 * d
RECURSIVE MulDivMod(_, _, _)
MulDivMod(a, b, d) ==
    IF b = 0 THEN <<0, 0>>
    ELSE LET h == MulDivMod(a, b \div 2, d)
             rest == 2 * h[2] + (b % 2) * a
         IN <<2 * h[1] + rest \div d, rest % d>>

ReserveOf(pool, token_id) == pool.amounts[token_index(pool, token_id)]

\* C19: for two tokens of the pool, the quote is Invalid if they are equal,
\* a reserve is zero or amount_in is zero; otherwise it is exactly
\* floor(amount_in*(10000 - fee)*reserve_out / (10000*reserve_in +
\* amount_in*(10000 - fee))) for every operand up to the largest Balance;
\* the pool is not modified
C19_QuoteFormula ==
    (q.phase = "returned" /\ q.token_in \in Range(q.pool.token_account_ids)
                         /\ q.token_out \in Range(q.pool.token_account_ids)) =>
        LET reserve_in == ReserveOf(q.before, q.token_in)
            reserve_out == ReserveOf(q.before, q.token_out)
            amount_with_fee == q.amount_in * (FEE_DIVISOR - q.before.total_fee)
        IN /\ q.pool = q.before
           /\ IF q.token_in = q.token_out \/ reserve_in = 0 \/ reserve_out = 0
                    \/ q.amount_in = 0
              THEN q.err = ERR_INVALID
              ELSE /\ q.err = OK
                   /\ q.amount_out =
                          MulDivMod(amount_with_fee, reserve_out,
                                    FEE_DIVISOR * reserve_in + amount_with_fee)[1]


\* C29: a quote that get_return gives for two tokens of a pool, whatever the
\* reserves, the fee below FEE_DIVISOR and the amount up to the largest
\* Balance, is less than the reserve of the token paid out, and so is a
\* Balance
C29_QuoteBelowReserve ==
    (q.phase = "returned" /\ q.err = OK) =>
        /\ q.before.total_fee < FEE_DIVISOR
        /\ q.amount_out >= 0
        /\ q.amount_out < ReserveOf(q.before, q.token_out)
        /\ q.amount_out <= Balance_MAX

\* a quote for an amount in the upper half of the range takes all but one
\* unit of the reserve
C29_Witness ==
    /\ q.phase = "returned"
    /\ q.err = OK
    /\ q.amount_in >= 2 ^ (BalanceBits - 1)
    /\ q.amount_out > 0
    /\ q.amount_out = ReserveOf(q.before, q.token_out) - 1

----------------------------------------------------------------------------
(* Properties of the ledger's checked deposit, under Spec *)

\* C20: on every account of the ledger deposit_with_storage_check adds the
\* amount to a registered token and returns true whatever the rent balance;
\* for an unregistered token it returns true and registers the token with
\* the amount iff the cost of the account with one more entry is covered by
\* the rent balance, and otherwise returns false and leaves the account as
\* it was
C20_CheckedDeposit ==
    \A a \in DOMAIN accounts, token \in Tokens, amount \in Amounts :
        LET before == accounts[a]
            r == deposit_with_storage_check(before, token, amount)
            n == Cardinality(DOMAIN before.tokens)
        IN /\ r.ok \in BOOLEAN
           /\ r.account.near_amount = before.near_amount
           /\ \A t \in DOMAIN before.tokens \ {token} :
                  t \in DOMAIN r.account.tokens /\ r.account.tokens[t] = before.tokens[t]
           /\ IF token \in DOMAIN before.tokens
              THEN /\ r.ok
                   /\ DOMAIN r.account.tokens = DOMAIN before.tokens
                   /\ r.account.tokens[token] = before.tokens[token] + amount
              ELSE IF StorageCost(n + 1) <= before.near_amount
                   THEN /\ r.ok
                        /\ DOMAIN r.account.tokens = DOMAIN before.tokens \cup {token}
                        /\ r.account.tokens[token] = amount
                   ELSE /\ ~r.ok
                        /\ DOMAIN r.account.tokens = DOMAIN before.tokens

\* the continuation of a failed transfer was refused by the sender's account,
\* which exists but cannot pay for another token, and went to the owner, on
\* whose account a registered token is credited although its rent is unpaid
C20_Witness ==
    /\ last.op = "exchange_callback_post_withdraw"
    /\ last.path = "lostfound"
    /\ "alice" \in DOMAIN accounts
    /\ \E token \in Tokens :
          /\ token \notin DOMAIN accounts["alice"].tokens
          /\ ~deposit_with_storage_check(accounts["alice"], token, 1).ok
    /\ owner_id \in DOMAIN accounts
    /\ \E token \in DOMAIN accounts[owner_id].tokens :
          /\ ~storage_covered(accounts[owner_id])
          /\ deposit_with_storage_check(accounts[owner_id], token, 1).ok


----------------------------------------------------------------------------
(* Properties of share transfers, checked under SpecPool *)

----------------------------------------------------------------------------
(* Properties of inbound deposits and of the rent, checked under Spec *)

\* the failures that apply to a deposit notification, given whether the
\* sender's account refuses the deposit for its rent
DepositFailures(msg, amount, refused) ==
    (IF msg # "" THEN {ERR_MSG_NOT_EMPTY} ELSE {})
        \cup (IF amount = 0 THEN {ERR_AMOUNT_ZERO} ELSE {})
        \cup (IF refused THEN {ERR11_INSUFFICIENT_STORAGE} ELSE {})

\* ft_on_transfer from every token, for every sender, amount and memo: with
\* no failure applying, the sender's balance of the token goes up by the
\* amount (entry created if absent) and nothing else changes; otherwise the
\* call fails with a failure that applies and the ledger is as before
InboundDeposit(refused(_, _)) ==
    \A token_id \in Tokens, sender_id \in Principals, amount \in Amounts,
       msg \in {"", "swap"} :
        LET account == Get(accounts, sender_id, AccountNew)
            r == ft_on_transfer(accounts, token_id, sender_id, amount, msg)
            failures == DepositFailures(msg, amount, refused(account, token_id))
        IN IF failures = {}
           THEN /\ r.err = OK
                /\ DOMAIN r.accounts = DOMAIN accounts \cup {sender_id}
                /\ \A a \in DOMAIN accounts \ {sender_id} : r.accounts[a] = accounts[a]
                /\ r.accounts[sender_id].near_amount = account.near_amount
                /\ DOMAIN r.accounts[sender_id].tokens
                       = DOMAIN account.tokens \cup {token_id}
                /\ r.accounts[sender_id].tokens[token_id]
                       = Get(account.tokens, token_id, 0) + amount
                /\ \A t \in DOMAIN account.tokens \ {token_id} :
                       r.accounts[sender_id].tokens[t] = account.tokens[t]
           ELSE r.err \in failures /\ r.accounts = accounts

\* creating the entry would take the storage cost above the rent
RefusesNewEntry(account, token_id) ==
    /\ token_id \notin DOMAIN account.tokens
    /\ StorageCost(Cardinality(DOMAIN account.tokens) + 1) > account.near_amount

\* the storage cost after the deposit is above the rent
RefusesDeposit(account, token_id) ==
    StorageCost(Cardinality(DOMAIN account.tokens \cup {token_id})) > account.near_amount

\* C22 as stated: an inbound deposit fails for its rent only if it creates
\* the token entry
C22_InboundDepositAsStated == InboundDeposit(RefusesNewEntry)

\* C22 amended: an inbound deposit fails for its rent whenever the storage
\* cost of the account after the deposit exceeds the rent, with or without
\* a new entry
C22_InboundDeposit == InboundDeposit(RefusesDeposit)

\* a deposit increased an existing balance while the owner's account holds
\* an entry its rent does not cover
C22_Witness ==
    /\ last.op = "ft_on_transfer"
    /\ "alice" \in DOMAIN accounts
    /\ \E t \in DOMAIN accounts["alice"].tokens : accounts["alice"].tokens[t] >= 2
    /\ owner_id \in DOMAIN accounts
    /\ ~Covered(accounts[owner_id])
    /\ DOMAIN accounts[owner_id].tokens # {}


\* max(0, rent - storage cost)
RentMargin(account) ==
    IF account.near_amount >= StorageCost(Cardinality(DOMAIN account.tokens))
    THEN account.near_amount - StorageCost(Cardinality(DOMAIN account.tokens))
    ELSE 0

\* C23: storage_available is the margin max(0, rent - storage cost); a rent
\* withdrawal of `amount` (0: the whole margin) from an account of the
\* ledger succeeds iff the margin is positive and the amount withdrawn is at
\* most the margin; it then takes exactly that amount off the rent, leaves
\* the tokens and the other accounts alone and leaves the storage cost
\* covered; otherwise the ledger is unchanged.  Every rent withdrawal that
\* happened left the account covered.
C23_RentWithdrawal ==
    /\ \A a \in DOMAIN accounts, amount \in RentWithdrawals \cup {1, MaxNear} :
          LET account == accounts[a]
              r == internal_storage_withdraw(accounts, a, amount)
              taken == IF amount = 0 THEN RentMargin(account) ELSE amount
          IN /\ storage_available(account) = RentMargin(account)
             /\ IF RentMargin(account) > 0 /\ taken <= RentMargin(account)
                THEN /\ r.err = OK
                     /\ DOMAIN r.accounts = DOMAIN accounts
                     /\ \A b \in DOMAIN accounts \ {a} : r.accounts[b] = accounts[b]
                     /\ r.accounts[a].near_amount = account.near_amount - taken
                     /\ r.accounts[a].tokens = account.tokens
                     /\ Covered(r.accounts[a])
                ELSE r.err # OK /\ r.accounts = accounts
    /\ \A a \in Principals \ DOMAIN accounts :
          internal_storage_withdraw(accounts, a, 0).err = ERR_ACCOUNT_NOT_REGISTERED

\* the whole margin of an account that holds a token was withdrawn: the rent
\* left is exactly the storage cost
C23_Witness ==
    /\ last.op = "storage_withdraw"
    /\ \E a \in DOMAIN accounts :
          /\ DOMAIN accounts[a].tokens # {}
          /\ accounts[a].near_amount = StorageCost(Cardinality(DOMAIN accounts[a].tokens))
          /\ internal_storage_withdraw(accounts, a, 0).err = ERR_NO_STORAGE_WITHDRAW


----------------------------------------------------------------------------
(* Properties of the life of an account, checked under Spec *)

\* a rent deposit for a principal without an account creates the account
RegistrationCreates ==
    \A p \in Principals \ DOMAIN accounts, amount \in RentAmounts :
        LET r == internal_register_account(accounts, p, amount)
        IN r.err = OK /\ DOMAIN r.accounts = DOMAIN accounts \cup {p}
              /\ r.accounts[p] = [near_amount |-> amount, tokens |-> EmptyMap]

\* a principal that has an account keeps it
NeverDeleted == [][DOMAIN accounts \subseteq DOMAIN accounts']_vars

\* C24 as stated: a rent deposit creates the account, the first inbound
\* deposit of a positive amount with empty memo for a principal without an
\* account succeeds and creates the account holding that balance, and an
\* account is never deleted
C24_AccountLifecycleAsStated ==
    /\ [](RegistrationCreates)
    /\ [](\A p \in Principals \ DOMAIN accounts, token_id \in Tokens,
             amount \in Amounts \ {0} :
               LET r == ft_on_transfer(accounts, token_id, p, amount, "")
               IN r.err = OK /\ DOMAIN r.accounts = DOMAIN accounts \cup {p}
                     /\ r.accounts[p].tokens = Put(EmptyMap, token_id, amount))
    /\ NeverDeleted

\* C24 amended: a rent deposit creates the account; an inbound deposit for a
\* principal without an account fails for its rent and creates nothing; the
\* only other way an account appears is the owner's, by a lost-and-found
\* credit; an account is never deleted
C24_AccountLifecycle ==
    /\ [](RegistrationCreates)
    /\ [](\A p \in Principals \ DOMAIN accounts, token_id \in Tokens,
             amount \in Amounts \ {0} :
               LET r == ft_on_transfer(accounts, token_id, p, amount, "")
               IN r.err = ERR11_INSUFFICIENT_STORAGE /\ r.accounts = accounts)
    /\ [][\A a \in DOMAIN accounts' \ DOMAIN accounts :
             \/ last'.op = "storage_deposit"
             \/ a = owner_id /\ last'.path = "lostfound"]_vars
    /\ NeverDeleted

\* both ways of creation happened, and the accounts outlived later calls:
\* the owner's account came from a lost-and-found credit (it has no rent),
\* the sender's from a rent deposit, and the sender has since emptied its
\* account of token entries
C24_Witness ==
    /\ last.op = "unregister_tokens"
    /\ owner_id \in DOMAIN accounts
    /\ accounts[owner_id].near_amount = 0
    /\ "alice" \in DOMAIN accounts
    /\ accounts["alice"].tokens = EmptyMap


----------------------------------------------------------------------------
(* Progress of a withdrawal, checked under SpecLive *)

\* C25: with the external call returning and its result delivered, the oldest
\* pending withdrawal eventually has its result, and after every withdraw
\* and after every result a continuation eventually runs, so that a pending
\* withdrawal is eventually resolved (with one withdrawal pending at a time:
\* that withdrawal); a withdrawal leaves the pending ones only by its continuation, run once
\* with its final result (no cancellation, and no step after it acts for
\* the withdrawal); a final result stays as it is; and while a withdrawal
\* is pending the ledger still takes deposits and registrations
C25_WithdrawalProgress ==
    /\ (pending # <<>> /\ pending[1].result = "NotReady")
          ~> (pending = <<>> \/ pending[1].result # "NotReady")
    /\ (last.op = "withdraw") ~> (last.op = "exchange_callback_post_withdraw")
    /\ (last.op = "ft_transfer") ~> (last.op = "exchange_callback_post_withdraw")
    /\ [][Len(pending') < Len(pending) =>
             /\ last'.op = "exchange_callback_post_withdraw"
             /\ \E i \in DOMAIN pending :
                    pending[i].result # "NotReady" /\ pending' = RemoveAt(pending, i)]_vars
    /\ [][last'.op = "exchange_callback_post_withdraw" =>
             Len(pending') = Len(pending) - 1]_vars
    /\ [][\A i \in DOMAIN pending :
             (pending[i].result # "NotReady" /\ Len(pending') >= Len(pending))
                 => pending'[i] = pending[i]]_vars
    /\ []((pending # <<>> /\ "alice" \in DOMAIN accounts
              /\ accounts["alice"].near_amount = MaxNear)
             => /\ ENABLED RegisterTokens
                /\ \A token_id \in Tokens :
                       ft_on_transfer(accounts, token_id, "alice", 1, "").err = OK)

\* a deposit was taken while a withdrawal was pending with its transfer
\* undecided
C25_Witness ==
    /\ last.op = "ft_on_transfer"
    /\ pending # <<>>
    /\ pending[1].result = "NotReady"


----------------------------------------------------------------------------
(* Properties of the reserves behind the shares, checked under SpecPool *)

\* the step is a liquidity operation of `op` on pool k with shares
\* outstanding before and after
LiquidityStep(op, k) ==
    /\ last'.op = op
    /\ pools'[k] # pools[k]
    /\ pools[k].shares_total_supply > 0
    /\ pools'[k].shares_total_supply > 0

\* the reserves behind one share of pool k do not go down in the step
BackingKept(k) ==
    \A i \in DOMAIN pools[k].amounts :
        pools'[k].amounts[i] * pools[k].shares_total_supply
            >= pools[k].amounts[i] * pools'[k].shares_total_supply

\* C26: a successful add_liquidity on a pool with shares outstanding and a
\* successful remove_liquidity that leaves shares outstanding do not lower
\* the reserves behind a share, for either token
C26_RoundingBias ==
    [][\A k \in DOMAIN pools :
          (LiquidityStep("pool_add_liquidity", k)
               \/ LiquidityStep("pool_remove_liquidity", k)) => BackingKept(k)]_vars


----------------------------------------------------------------------------
(* Properties of reserves and shares of a pool, under SpecProvide *)

\* C27: a pool with shares outstanding holds a positive reserve of each of
\* its tokens
C27_ReservesBehindShares ==
    \A k \in DOMAIN pools :
        pools[k].shares_total_supply > 0
            => \A i \in DOMAIN pools[k].amounts : pools[k].amounts[i] > 0


\* C28: a pool without shares has empty reserves; the removal of the last
\* shares pays the whole reserves to the provider's ledger account; and a
\* deposit into a pool without shares is a first deposit, minting
\* INIT_SHARES_SUPPLY for the requested amounts
C28_EmptyWithoutShares ==
    /\ [](\A k \in DOMAIN pools :
             pools[k].shares_total_supply = 0 =>
                 /\ \A i \in DOMAIN pools[k].amounts : pools[k].amounts[i] = 0
                 /\ \A amounts \in AmountPairs :
                        LET r == pool_add_liquidity(pools[k], "alice", amounts)
                        IN r.err = OK /\ r.shares = INIT_SHARES_SUPPLY
                              /\ r.pool.amounts = amounts)
    /\ [][\A k \in DOMAIN pools :
             (pools[k].shares_total_supply > 0 /\ pools'[k].shares_total_supply = 0)
                 => /\ last'.op = "remove_liquidity"
                    /\ \A t \in Tokens :
                           LedgerTotal(accounts', t)
                               = LedgerTotal(accounts, t) + PoolReserve(pools[k], t)]_vars

\* the last shares of a pool that held both tokens were removed after a
\* second provider had joined and left
C28_Witness ==
    /\ last.op = "remove_liquidity"
    /\ \E k \in DOMAIN pools :
          /\ pools[k].shares_total_supply = 0
          /\ pools[k].amounts = <<0, 0>>
          /\ {"alice", owner_id} \subseteq DOMAIN pools[k].shares
    /\ \A t \in Tokens : LedgerTotal(accounts, t) > 0


----------------------------------------------------------------------------
(* Conservation between the ledger and the pools, under SpecLiquidity *)

\* units of `token` on the ledger and in the pools
Held(accts, pls, token) == LedgerTotal(accts, token) + PoolTotal(pls, token)

\* the account of `who` after a credit of the amounts a removal from `pool`
\* pays out, entries created where absent
Paid(accts, who, pool, amounts) ==
    LET old == Get(accts, who, AccountNew)
    IN [near_amount |-> old.near_amount,
        tokens |-> [t \in DOMAIN old.tokens \cup Range(pool.token_account_ids) |->
                       Get(old.tokens, t, 0)
                           + SumOver([i \in DOMAIN amounts |->
                                         IF pool.token_account_ids[i] = t
                                         THEN amounts[i] ELSE 0], DOMAIN amounts)]]

\* C30: add_liquidity and remove_liquidity, failed or not, leave the units of
\* every token on the ledger plus in the pools as they were; a failed call
\* leaves ledger and pools unchanged; remove_liquidity credits the
\* provider's account, entries created if absent, with exactly what leaves
\* the reserves, and fails as a whole, pool unchanged, if the rent of the
\* provider's account does not cover the account so credited
C30_LiquidityConservation ==
    /\ [](\A sender_id \in Principals, pool_id \in 0 .. (MaxPools - 1) :
            /\ \A amounts \in AmountPairs, min_amounts \in MinAmountLists :
                  LET r == add_liquidity(accounts, pools, sender_id, pool_id, amounts,
                                         min_amounts)
                  IN /\ \A t \in Tokens :
                            Held(r.accounts, r.pools, t) = Held(accounts, pools, t)
                     /\ r.err # OK => r.accounts = accounts /\ r.pools = pools
            /\ \A shares \in ShareAmounts, min_amounts \in RemoveMinAmounts :
                  LET r == remove_liquidity(accounts, pools, sender_id, pool_id, shares,
                                            min_amounts)
                      p == IF pool_id + 1 \in DOMAIN pools
                           THEN pool_remove_liquidity(pools[pool_id + 1], sender_id,
                                                      shares, min_amounts)
                           ELSE [err |-> ERR_NO_POOL, pool |-> NoPool, amounts |-> <<>>]
                      paid == Paid(accounts, sender_id, p.pool, p.amounts)
                  IN /\ \A t \in Tokens :
                            Held(r.accounts, r.pools, t) = Held(accounts, pools, t)
                     /\ r.err # OK => r.accounts = accounts /\ r.pools = pools
                     /\ p.err = OK =>
                            IF Covered(paid)
                            THEN /\ r.err = OK
                                 /\ r.accounts = Put(accounts, sender_id, paid)
                                 /\ r.pools[pool_id + 1] = p.pool
                                 /\ \A i \in DOMAIN p.amounts :
                                        p.amounts[i] = pools[pool_id + 1].amounts[i]
                                                          - p.pool.amounts[i]
                            ELSE r.err = ERR11_INSUFFICIENT_STORAGE)
    /\ [][last'.op \in {"add_liquidity", "remove_liquidity"} =>
             \A t \in Tokens : Held(accounts', pools', t) = Held(accounts, pools, t)]_vars

\* a provider who gave up a token entry and the rent for it after providing
\* liquidity holds shares it cannot take out: the removal fails for the rent
C30_Witness ==
    /\ \E k \in DOMAIN pools, a \in DOMAIN accounts :
          /\ a \in DOMAIN pools[k].shares
          /\ pools[k].shares[a] > 0
          /\ \E i \in DOMAIN pools[k].amounts : pools[k].amounts[i] > 0
          /\ remove_liquidity(accounts, pools, a, k - 1, pools[k].shares[a], <<0, 0>>).err
                 = ERR11_INSUFFICIENT_STORAGE

====
